---- MODULE Spec2Model ----
(***************************************************************************)
(* Model of oh-my-md: the markdown segmenter                               *)
(* (src/src/components/MarkdownPreview.tsx), the highlight requests of the *)
(* CodeBlock components (src/src/components/CodeBlock.tsx), the file       *)
(* store over localStorage (src/unnamed/part_000), the App component with  *)
(* its autosave and import and the command palette                         *)
(* (src/src/components/CommandPalette.tsx), and the theme store            *)
(* (src/unnamed/part_001).                                                 *)
(*                                                                         *)
(* Strings are sequences of one-character strings, so that trimming,       *)
(* newline stripping, HTML escaping and the placeholder scan are computed  *)
(* character by character as the code computes them.                       *)
(*                                                                         *)
(* The markdown source (props.content) is kept as the sequence of blocks   *)
(* that the markdown-it block parser finds in the text: whitespace, a      *)
(* paragraph, a link reference definition, a fenced code block or an       *)
(* indented chunk.  Inline images and links only change the markup inside  *)
(* a paragraph and are left out of the token stream; the image, link_open  *)
(* and link_close rules are kept in the rule table that the pass installs  *)
(* and restores.                                                           *)
(***************************************************************************)
EXTENDS Integers, Sequences, FiniteSets, TLC

VARIABLES content, rules, processedContent, segments, snapshot, pieces,
          running,
          codeBlockProps, highlightedHtml, isLoading, inFlight,
          resolvedColorMode, aesthetic, event, effectRuns,
          files, currentFileId, isInitialized, localStorage, lastCall,
          markdown, lastSavedValue, pendingSave, timer, isImporting, importing,
          search, selectedIndex,
          colorMode, systemPreference, rootDark, rootTheme, themeInitialized

\* the markdown preview and its shared renderer
previewVars ==
  <<content, rules, processedContent, segments, snapshot, pieces, running>>

\* the CodeBlock components, their highlight requests and the theme signals
highlightVars ==
  <<codeBlockProps, highlightedHtml, isLoading, inFlight, resolvedColorMode,
    aesthetic, event, effectRuns>>

\* the file store, the browser storage behind it and the last call made
fileVars == <<files, currentFileId, isInitialized, localStorage, lastCall>>

\* the App component: editor text, autosave and import
appVars ==
  <<markdown, lastSavedValue, pendingSave, timer, isImporting, importing>>

\* the command palette
paletteVars == <<search, selectedIndex>>

\* the colour mode of the theme store, the system preference and the
\* dark class of the document root
themeVars ==
  <<colorMode, systemPreference, rootDark, rootTheme, themeInitialized>>

uiVars == <<appVars, paletteVars, themeVars>>

vars == <<previewVars, highlightVars, fileVars, uiVars>>

(***************************************************************************)
(* Bounds                                                                  *)
(***************************************************************************)
\* longest source, in blocks
MaxBlocks == 3
\* longest source, in blocks, where earlier results are remembered
MaxIdemBlocks == 2
\* longest rendered HTML given to the scan on its own, in pieces
MaxPieces == 5
\* number of CodeBlock components on the page
NumCodeBlocks == 2
\* most times the highlight effects run again after the components mount
MaxEffectRuns == 2
\* most blocks of a source rendered step by step
MaxLoopBlocks == 1
\* most files kept in the store
MaxFiles == 2
\* latest value of Date.now()
MaxClock == 2

(***************************************************************************)
(* Characters and strings                                                  *)
(***************************************************************************)
NL == "\n"

\* String.prototype.trim() strips these from both ends (the ones in use here)
WhitespaceChars == {" ", "\n", "\t"}

Min(S) == CHOOSE x \in S : \A y \in S : x <= y
Max(S) == CHOOSE x \in S : \A y \in S : y <= x

\* s.trim()
Trim(s) ==
  LET kept == {k \in 1..Len(s) : s[k] \notin WhitespaceChars} IN
  IF kept = {} THEN <<>> ELSE SubSeq(s, Min(kept), Max(kept))

\* JavaScript truthiness of a string: non-empty
Truthy(s) == Len(s) > 0

\* html.slice(from, to) with 0-based from (inclusive) and to (exclusive)
Slice(s, from, to) == SubSeq(s, from + 1, to)

\* a variant that strips every trailing newline, as /\n+$/ would
RECURSIVE StripAllTrailingNewlines(_)
StripAllTrailingNewlines(code) ==
  IF Len(code) > 0 /\ code[Len(code)] = NL
  THEN StripAllTrailingNewlines(SubSeq(code, 1, Len(code) - 1))
  ELSE code

\* code.replace(/\n$/, ''): without the m flag $ matches only at the very
\* end of the string, and replace without g replaces one match
StripTrailingNewline(code) ==
  IF Len(code) > 0 /\ code[Len(code)] = NL
  THEN SubSeq(code, 1, Len(code) - 1)
  ELSE code

\* decimal digits of a natural number, as ${n} prints it
DigitChar(d) == <<"0", "1", "2", "3", "4", "5", "6", "7", "8", "9">>[d + 1]

RECURSIVE ToDigits(_)
ToDigits(n) ==
  IF n < 10 THEN <<DigitChar(n)>>
  ELSE ToDigits(n \div 10) \o <<DigitChar(n % 10)>>

\* a variant that lets the text through as it is, as html: true would
EscapeCharRaw(c) == <<c>>

\* the markdown-it escapeHtml, applied to text and to code by the default rules
EscapeChar(c) ==
  CASE c = "<"  -> <<"&", "l", "t", ";">>
    [] c = ">"  -> <<"&", "g", "t", ";">>
    [] c = "&"  -> <<"&", "a", "m", "p", ";">>
    [] c = "\"" -> <<"&", "q", "u", "o", "t", ";">>
    [] OTHER    -> <<c>>

\* every character replaced in place, left to right
RECURSIVE EscapeHtml(_)
EscapeHtml(s) ==
  IF s = <<>> THEN <<>>
  ELSE IF Len(s) = 1 THEN EscapeChar(s[1])
  ELSE LET half == Len(s) \div 2 IN
       EscapeHtml(SubSeq(s, 1, half)) \o EscapeHtml(SubSeq(s, half + 1, Len(s)))

(***************************************************************************)
(* Placeholder markers                                                     *)
(***************************************************************************)
\* code-block-
IdPrefix == <<"c", "o", "d", "e", "-", "b", "l", "o", "c", "k", "-">>

\* <div data-code-block-id="
MarkerOpen ==
  <<"<", "d", "i", "v", " ", "d", "a", "t", "a", "-", "c", "o", "d", "e",
    "-", "b", "l", "o", "c", "k", "-", "i", "d", "=", "\"">>

\* "></div>
MarkerClose == <<"\"", ">", "<", "/", "d", "i", "v", ">">>

\* code-block-${blockIndex}
BlockId(blockIndex) == IdPrefix \o ToDigits(blockIndex)

\* <div data-code-block-id="${id}"></div>
Placeholder(id) == MarkerOpen \o id \o MarkerClose

(***************************************************************************)
(* The markdown source as blocks, and the markdown-it block parser         *)
(***************************************************************************)
Block(kind, info, text, closed) ==
  [kind |-> kind, info |-> info, text |-> text, closed |-> closed]

\* a whitespace-only line
BlankBlock == Block("blank", <<>>, <<" ", NL>>, TRUE)
\* the paragraph a
ParaBlock == Block("para", <<>>, <<"a">>, TRUE)
\* a paragraph that spells out the placeholder of the first code block
MarkerTextBlock == Block("para", <<>>, Placeholder(BlockId(0)), TRUE)
\* the link reference definition [a]: b
RefDefBlock == Block("refdef", <<>>, <<"[", "a", "]", ":", " ", "b">>, TRUE)
\* (fence) / x / (fence)
FenceBlock == Block("fence", <<>>, <<"x", NL>>, TRUE)
\* (fence)js / x / (empty line) / (fence)
FenceJsBlock == Block("fence", <<"j", "s">>, <<"x", NL, NL>>, TRUE)
\* (fence) JS / (fence) : an info string kept with its space and case, no content
FenceEmptyBlock == Block("fence", <<" ", "J", "S">>, <<>>, TRUE)
\* (fence) / x at the end of the text, never closed and without a final newline
FenceOpenBlock == Block("fence", <<>>, <<"x">>, FALSE)
\* four spaces and x
IndentBlock == Block("indent", <<>>, <<"x", NL>>, TRUE)

Blocks ==
  {BlankBlock, ParaBlock, MarkerTextBlock, RefDefBlock, FenceBlock,
   FenceJsBlock, FenceEmptyBlock, FenceOpenBlock, IndentBlock}

\* an unclosed fence runs to the end of the text, so it is the last block
WellFormed(source) ==
  \A i \in 1..Len(source) :
    (source[i].kind = "fence" /\ ~source[i].closed) => i = Len(source)

\* a fence line, written with tildes
FenceMark == <<"~", "~", "~">>
FourSpaces == <<" ", " ", " ", " ">>

\* the text of one block as it stands in props.content
BlockText(b) ==
  CASE b.kind = "blank"  -> b.text
    [] b.kind = "para"   -> b.text \o <<NL, NL>>
    [] b.kind = "refdef" -> b.text \o <<NL, NL>>
    [] b.kind = "fence"  ->
         FenceMark \o b.info \o <<NL>> \o b.text
           \o (IF b.closed THEN FenceMark \o <<NL>> ELSE <<>>)
    [] b.kind = "indent" -> FourSpaces \o b.text

RECURSIVE SourceText(_)
SourceText(source) ==
  IF source = <<>> THEN <<>>
  ELSE BlockText(Head(source)) \o SourceText(Tail(source))

Token(type, info, tokenContent) ==
  [type |-> type, info |-> info, content |-> tokenContent]

\* indented chunks separated only by blank lines are one code_block token:
\* the last block of the run that starts at i
RECURSIVE IndentRunEnd(_, _, _)
IndentRunEnd(source, i, last) ==
  IF i > Len(source) THEN last
  ELSE IF source[i].kind = "indent" THEN IndentRunEnd(source, i + 1, i)
  ELSE IF source[i].kind = "blank" THEN IndentRunEnd(source, i + 1, last)
  ELSE last

\* content of the code_block token for the run i..j; a blank line inside
\* the run is kept as an empty line
RECURSIVE IndentRunContent(_, _, _)
IndentRunContent(source, i, j) ==
  IF i > j THEN <<>>
  ELSE (IF source[i].kind = "indent" THEN source[i].text ELSE <<NL>>)
         \o IndentRunContent(source, i + 1, j)

\* md.parse: the block tokens of the source, in document order
RECURSIVE ParseFrom(_, _)
ParseFrom(source, i) ==
  IF i > Len(source) THEN <<>>
  ELSE
    LET b == source[i] IN
    CASE b.kind = "para" ->
           <<Token("paragraph", <<>>, b.text)>> \o ParseFrom(source, i + 1)
      [] b.kind = "fence" ->
           <<Token("fence", b.info, b.text)>> \o ParseFrom(source, i + 1)
      [] b.kind = "indent" ->
           LET j == IndentRunEnd(source, i, i) IN
           <<Token("code_block", <<>>, IndentRunContent(source, i, j))>>
             \o ParseFrom(source, j + 1)
      [] OTHER -> ParseFrom(source, i + 1)

Parse(source) == ParseFrom(source, 1)

(***************************************************************************)
(* The renderer rule table                                                 *)
(***************************************************************************)
\* values captured at module load; markdown-it ships rules for fence,
\* code_block and image, and none for link_open and link_close
originalFence == "default_fence"
originalCodeBlock == "default_code_block"
originalImage == "default_image"
originalLinkOpen == "undefined"
originalLinkClose == "undefined"

OriginalRules ==
  [fence |-> originalFence, code_block |-> originalCodeBlock,
   image |-> originalImage, link_open |-> originalLinkOpen,
   link_close |-> originalLinkClose]

\* md.renderer.rules.X = (tokens, idx, ...) => ... for the five rules
InstallOverrides(r) ==
  [r EXCEPT !.fence = "override_fence",
            !.code_block = "override_code_block",
            !.image = "override_image",
            !.link_open = "override_link_open",
            !.link_close = "override_link_close"]

\* a variant that restores only the two code block rules
RestoreCodeRulesOnly(r) ==
  [r EXCEPT !.fence = originalFence, !.code_block = originalCodeBlock]

\* md.renderer.rules.X = originalX for the five rules
RestoreRenderers(r) ==
  [r EXCEPT !.fence = originalFence,
            !.code_block = originalCodeBlock,
            !.image = originalImage,
            !.link_open = originalLinkOpen,
            !.link_close = originalLinkClose]

(***************************************************************************)
(* Rendering one token.  pass is the closure state of one pass:            *)
(* [codeBlocks, blockIndex]; a rule returns its markup and the new state.  *)
(***************************************************************************)
CodeBlockData(id, code, language) ==
  [id |-> id, code |-> code, language |-> language]

Plaintext == <<"p", "l", "a", "i", "n", "t", "e", "x", "t">>

\* a variant that normalises the info string before using it
FenceLanguageTrimmed(info) ==
  IF Truthy(Trim(info)) THEN Trim(info) ELSE Plaintext

\* token.info || 'plaintext'
FenceLanguage(info) == IF Truthy(info) THEN info ELSE Plaintext

\* a variant that reads blockIndex without incrementing it
FenceOverrideNoIncrement(token, pass) ==
  LET id == BlockId(pass.blockIndex) IN
  [out |-> Placeholder(id),
   pass |-> [codeBlocks |->
               Append(pass.codeBlocks,
                      CodeBlockData(id, StripTrailingNewline(token.content),
                                    FenceLanguage(token.info))),
             blockIndex |-> pass.blockIndex]]

FenceOverride(token, pass) ==
  LET id == BlockId(pass.blockIndex) IN
  [out |-> Placeholder(id),
   pass |-> [codeBlocks |->
               Append(pass.codeBlocks,
                      CodeBlockData(id, StripTrailingNewline(token.content),
                                    FenceLanguage(token.info))),
             blockIndex |-> pass.blockIndex + 1]]

\* a variant that takes the language from the (empty) info of the token
CodeBlockOverrideInfoLanguage(token, pass) ==
  LET id == BlockId(pass.blockIndex) IN
  [out |-> Placeholder(id),
   pass |-> [codeBlocks |->
               Append(pass.codeBlocks,
                      CodeBlockData(id, StripTrailingNewline(token.content),
                                    token.info)),
             blockIndex |-> pass.blockIndex + 1]]

CodeBlockOverride(token, pass) ==
  LET id == BlockId(pass.blockIndex) IN
  [out |-> Placeholder(id),
   pass |-> [codeBlocks |->
               Append(pass.codeBlocks,
                      CodeBlockData(id, StripTrailingNewline(token.content),
                                    Plaintext)),
             blockIndex |-> pass.blockIndex + 1]]

PreCodeOpen == <<"<", "p", "r", "e", ">", "<", "c", "o", "d", "e", ">">>
PreCodeLangOpen ==
  <<"<", "p", "r", "e", ">", "<", "c", "o", "d", "e", " ", "c", "l", "a",
    "s", "s", "=", "\"", "l", "a", "n", "g", "u", "a", "g", "e", "-">>
PreCodeClose ==
  <<"<", "/", "c", "o", "d", "e", ">", "<", "/", "p", "r", "e", ">", NL>>

\* the markdown-it own fence and code_block rules
DefaultFence(token) ==
  LET lang == Trim(token.info) IN
  (IF Truthy(lang)
   THEN PreCodeLangOpen \o EscapeHtml(lang) \o <<"\"", ">">>
   ELSE PreCodeOpen)
    \o EscapeHtml(token.content) \o PreCodeClose

DefaultCodeBlock(token) ==
  PreCodeOpen \o EscapeHtml(token.content) \o PreCodeClose

\* <p>text</p>, the text escaped
RenderParagraph(token) ==
  <<"<", "p", ">">> \o EscapeHtml(token.content)
    \o <<"<", "/", "p", ">", NL>>

\* Renderer.render dispatches on the rule installed for the token type
RenderToken(token, r, pass) ==
  CASE token.type = "fence" ->
         IF r.fence = "override_fence" THEN FenceOverride(token, pass)
         ELSE [out |-> DefaultFence(token), pass |-> pass]
    [] token.type = "code_block" ->
         IF r.code_block = "override_code_block"
         THEN CodeBlockOverride(token, pass)
         ELSE [out |-> DefaultCodeBlock(token), pass |-> pass]
    [] OTHER -> [out |-> RenderParagraph(token), pass |-> pass]

\* md.render(source): the markup of all tokens, in order
RECURSIVE RenderFrom(_, _, _, _, _)
RenderFrom(tokens, idx, r, html, pass) ==
  IF idx > Len(tokens) THEN [html |-> html, pass |-> pass]
  ELSE
    LET one == RenderToken(tokens[idx], r, pass) IN
    RenderFrom(tokens, idx + 1, r, html \o one.out, one.pass)

\* a variant whose counter is shared by all passes and goes on counting
FreshPassSharedCounter ==
  [codeBlocks |-> <<>>, blockIndex |-> Len(processedContent.codeBlocks)]

\* const codeBlocks = []; let blockIndex = 0
FreshPass == [codeBlocks |-> <<>>, blockIndex |-> 0]

\* a variant that keeps the previous value of the memo for a blank source
ProcessedContentKeepsPrevious(source, r) ==
  IF ~Truthy(Trim(SourceText(source)))
  THEN [html |-> processedContent.html,
        codeBlocks |-> processedContent.codeBlocks, rules |-> r]
  ELSE
    LET installed == InstallOverrides(r)
        done == RenderFrom(Parse(source), 1, installed, <<>>, FreshPass)
    IN [html |-> done.html, codeBlocks |-> done.pass.codeBlocks,
        rules |-> RestoreRenderers(installed)]

\* the body of the processedContent memo, with the rule table it leaves
ProcessedContent(source, r) ==
  IF ~Truthy(Trim(SourceText(source)))
  THEN [html |-> <<>>, codeBlocks |-> <<>>, rules |-> r]
  ELSE
    LET installed == InstallOverrides(r)
        done == RenderFrom(Parse(source), 1, installed, <<>>, FreshPass)
    IN [html |-> done.html, codeBlocks |-> done.pass.codeBlocks,
        rules |-> RestoreRenderers(installed)]

(***************************************************************************)
(* The segments memo: splitting the markup at the placeholders             *)
(***************************************************************************)
\* the literal text p stands in s at the 1-based position k
StartsWithAt(s, k, p) ==
  k + Len(p) - 1 <= Len(s) /\ SubSeq(s, k, k + Len(p) - 1) = p

\* position (1-based) of the first double quote at or after k, 0 if none
FirstQuote(html, k) ==
  LET quotes == {q \in k..Len(html) : html[q] = "\""} IN
  IF quotes = {} THEN 0 ELSE Min(quotes)

\* /<div data-code-block-id="([^"]+)"><\/div>/ tried at the 0-based index i:
\* the length of the match, 0 if there is none.  [^"]+ takes the one or
\* more characters up to the next double quote.
MatchLenAt(html, i) ==
  IF ~StartsWithAt(html, i + 1, MarkerOpen) THEN 0
  ELSE
    LET idStart == i + Len(MarkerOpen) + 1
        q == FirstQuote(html, idStart)
    IN IF q = 0 \/ q = idStart THEN 0
       ELSE IF ~StartsWithAt(html, q, MarkerClose) THEN 0
       ELSE q + Len(MarkerClose) - 1 - i

\* match[1], the identifier captured by the match of length len at i
MatchId(html, i, len) ==
  SubSeq(html, i + Len(MarkerOpen) + 1, i + len - Len(MarkerClose))

\* regex.exec(html) with regex.lastIndex = from: the index of the leftmost
\* match at or after from, -1 when exec returns null
Exec(html, from) ==
  LET found == {i \in from..(Len(html) - 1) :
                  html[i + 1] = "<" /\ MatchLenAt(html, i) > 0}
  IN IF found = {} THEN -1 ELSE Min(found)

\* new Map(codeBlocks.map((cb) => [cb.id, cb])).get(id): a later entry
\* with the same key replaces an earlier one; Undefined when absent
Undefined == [id |-> <<>>, code |-> <<>>, language |-> <<>>, absent |-> TRUE]

\* a variant that consults the first descriptor only
CodeBlockMapGetFirstEntry(codeBlocks, id) ==
  IF Len(codeBlocks) > 0 /\ codeBlocks[1].id = id THEN codeBlocks[1]
  ELSE Undefined

CodeBlockMapGet(codeBlocks, id) ==
  LET hits == {k \in 1..Len(codeBlocks) : codeBlocks[k].id = id} IN
  IF hits = {} THEN Undefined
  ELSE codeBlocks[CHOOSE k \in hits : \A other \in hits : other <= k]

HtmlSegment(htmlContent) == [type |-> "html", content |-> htmlContent]
CodeSegment(codeBlock) == [type |-> "code", data |-> codeBlock]

\* a variant that pushes the trimmed stretch
PushHtmlTrimmed(result, htmlContent) ==
  IF Truthy(Trim(htmlContent))
  THEN Append(result, HtmlSegment(Trim(htmlContent)))
  ELSE result

\* a variant that pushes every stretch, blank or not
PushHtmlUnchecked(result, htmlContent) ==
  Append(result, HtmlSegment(htmlContent))

\* result.push of an HTML stretch, only if it is not blank after trimming
PushHtml(result, htmlContent) ==
  IF Truthy(Trim(htmlContent)) THEN Append(result, HtmlSegment(htmlContent))
  ELSE result

\* a variant of the loop that pushes the code block before the HTML that
\* precedes its placeholder
RECURSIVE ScanLoopCodeFirst(_, _, _, _)
ScanLoopCodeFirst(html, codeBlocks, lastIndex, result) ==
  LET index == Exec(html, lastIndex) IN
  IF index = -1
  THEN IF lastIndex < Len(html)
       THEN PushHtml(result, Slice(html, lastIndex, Len(html)))
       ELSE result
  ELSE
    LET len == MatchLenAt(html, index)
        codeBlock == CodeBlockMapGet(codeBlocks, MatchId(html, index, len))
        first == IF codeBlock # Undefined
                 THEN Append(result, CodeSegment(codeBlock))
                 ELSE result
        second == IF index > lastIndex
                  THEN PushHtml(first, Slice(html, lastIndex, index))
                  ELSE first
    IN ScanLoopCodeFirst(html, codeBlocks, index + len, second)

\* a variant of the loop that gives up at a placeholder without descriptor
RECURSIVE ScanLoopStopsAtMissing(_, _, _, _)
ScanLoopStopsAtMissing(html, codeBlocks, lastIndex, result) ==
  LET index == Exec(html, lastIndex) IN
  IF index = -1
  THEN IF lastIndex < Len(html)
       THEN PushHtml(result, Slice(html, lastIndex, Len(html)))
       ELSE result
  ELSE
    LET len == MatchLenAt(html, index)
        before == IF index > lastIndex
                  THEN PushHtml(result, Slice(html, lastIndex, index))
                  ELSE result
        codeBlock == CodeBlockMapGet(codeBlocks, MatchId(html, index, len))
    IN IF codeBlock = Undefined THEN before
       ELSE ScanLoopStopsAtMissing(html, codeBlocks, index + len,
                                   Append(before, CodeSegment(codeBlock)))

\* a variant of the loop without the remaining HTML after the last match
RECURSIVE ScanLoopDropsTail(_, _, _, _)
ScanLoopDropsTail(html, codeBlocks, lastIndex, result) ==
  LET index == Exec(html, lastIndex) IN
  IF index = -1 THEN result
  ELSE
    LET len == MatchLenAt(html, index)
        before == IF index > lastIndex
                  THEN PushHtml(result, Slice(html, lastIndex, index))
                  ELSE result
        codeBlock == CodeBlockMapGet(codeBlocks, MatchId(html, index, len))
        after == IF codeBlock # Undefined
                 THEN Append(before, CodeSegment(codeBlock))
                 ELSE before
    IN ScanLoopDropsTail(html, codeBlocks, index + len, after)

\* the while loop over the matches and the remaining HTML after it
RECURSIVE ScanLoop(_, _, _, _)
ScanLoop(html, codeBlocks, lastIndex, result) ==
  LET index == Exec(html, lastIndex) IN
  IF index = -1
  THEN IF lastIndex < Len(html)
       THEN PushHtml(result, Slice(html, lastIndex, Len(html)))
       ELSE result
  ELSE
    LET len == MatchLenAt(html, index)
        before == IF index > lastIndex
                  THEN PushHtml(result, Slice(html, lastIndex, index))
                  ELSE result
        codeBlock == CodeBlockMapGet(codeBlocks, MatchId(html, index, len))
        after == IF codeBlock # Undefined
                 THEN Append(before, CodeSegment(codeBlock))
                 ELSE before
    IN ScanLoop(html, codeBlocks, index + len, after)

\* a variant that looks the identifiers up in the descriptors of the
\* previous pass
SegmentsStaleDescriptors(processed) ==
  IF ~Truthy(processed.html) THEN <<>>
  ELSE ScanLoop(processed.html, processedContent.codeBlocks, 0, <<>>)

\* the body of the segments memo
Segments(processed) ==
  IF ~Truthy(processed.html) THEN <<>>
  ELSE ScanLoop(processed.html, processed.codeBlocks, 0, <<>>)

(***************************************************************************)
(* State machine                                                           *)
(***************************************************************************)
\* the sources one edit away: a block added at the end, or the first or
\* the last block removed
Edits(source, blocks, max) ==
  {new \in {Append(source, b) : b \in blocks} :
     Len(new) <= max /\ WellFormed(new)}
    \cup (IF source = <<>> THEN {}
          ELSE {Tail(source), SubSeq(source, 1, Len(source) - 1)})

\* what the view shows of a segment: its type and its HTML, or its code
\* and language (identifiers are not part of the structure)
SegmentStructure(segment) ==
  IF segment.type = "code"
  THEN [type |-> "code", code |-> segment.data.code,
        language |-> segment.data.language]
  ELSE [type |-> "html", content |-> segment.content]

Structure(segs) == [k \in 1..Len(segs) |-> SegmentStructure(segs[k])]

\* later marks that a pass has run since the snapshot was taken
NoSnapshot ==
  [taken |-> FALSE, content |-> <<>>, structure |-> <<>>, later |-> FALSE]

\* no pass of the processedContent memo is on the call stack
Idle == [pc |-> "idle", html |-> <<>>, codeBlocks |-> <<>>]

\* currentFileId() === null
Null == <<>>

\* the text the editor starts with
sampleMarkdown == "sample"

\* no autosave timer is armed
NoTimer == [armed |-> FALSE]

\* App, the palette and the theme store as they are created
NoUi ==
  /\ markdown = sampleMarkdown
  /\ lastSavedValue = sampleMarkdown
  /\ pendingSave = FALSE
  /\ timer = NoTimer
  /\ isImporting = FALSE
  /\ importing = <<>>
  /\ search = ""
  /\ selectedIndex = 0
  /\ colorMode = "system"
  /\ systemPreference = "light"
  /\ rootDark = FALSE
  /\ rootTheme = ""
  /\ themeInitialized = FALSE

NoCall == [op |-> "none"]

\* the file store as the module creates it, over an empty storage
NoFiles ==
  /\ files = <<>>
  /\ currentFileId = Null
  /\ isInitialized = FALSE
  /\ localStorage = <<>>
  /\ lastCall = NoCall

NoEvent == [kind |-> "none", block |-> 0]

\* no CodeBlock is mounted
NoCodeBlocks ==
  /\ codeBlockProps = <<>>
  /\ highlightedHtml = <<>>
  /\ isLoading = <<>>
  /\ inFlight = <<>>
  /\ resolvedColorMode = "light"
  /\ aesthetic = "editorial"
  /\ event = NoEvent
  /\ effectRuns = 0

\* the component is created with an empty document
Init ==
  /\ content = <<>>
  /\ rules = OriginalRules
  /\ processedContent = [html |-> <<>>, codeBlocks |-> <<>>]
  /\ segments = <<>>
  /\ snapshot = NoSnapshot
  /\ pieces = <<>>
  /\ running = Idle
  /\ NoCodeBlocks
  /\ NoFiles
  /\ NoUi

\* props.content changes: processedContent is recomputed, then segments
SetContent(new) ==
  LET processed == ProcessedContent(new, rules) IN
  /\ new # content
  /\ content' = new
  /\ rules' = processed.rules
  /\ processedContent' =
       [html |-> processed.html, codeBlocks |-> processed.codeBlocks]
  /\ segments' = Segments(processedContent')
  /\ snapshot' = [snapshot EXCEPT !.later = snapshot.taken]
  /\ UNCHANGED <<pieces, running, highlightVars, fileVars, uiVars>>

Next == \E new \in Edits(content, Blocks, MaxBlocks) : SetContent(new)

Spec == Init /\ [][Next]_vars

\* the view reads segments(): the source and what is shown for it are
\* remembered, to be compared with a later pass over the same source
Remember ==
  /\ snapshot' = [taken |-> TRUE, content |-> content,
                  structure |-> Structure(segments), later |-> FALSE]
  /\ UNCHANGED <<content, rules, processedContent, segments, pieces, running>>
  /\ UNCHANGED <<highlightVars, fileVars, uiVars>>

IdemBlocks == {BlankBlock, ParaBlock, RefDefBlock, FenceJsBlock, IndentBlock}

NextIdem ==
  \/ \E new \in Edits(content, IdemBlocks, MaxIdemBlocks) : SetContent(new)
  \/ Remember

SpecIdem == Init /\ [][NextIdem]_vars

(***************************************************************************)
(* The segments memo on its own: the scan applied to any rendered HTML     *)
(* built from placeholders, markup and whitespace, with the descriptors    *)
(* code-block-0 and code-block-1 recorded or not                           *)
(***************************************************************************)
ScanDescriptors ==
  <<CodeBlockData(BlockId(0), <<"x">>, Plaintext),
    CodeBlockData(BlockId(1), <<"y">>, <<"j", "s">>)>>

\* what the HTML is made of: the placeholders of code-block-0, 1 and 2,
\* a paragraph, and a stretch of whitespace
ScanPieces ==
  {Placeholder(BlockId(0)), Placeholder(BlockId(1)), Placeholder(BlockId(2)),
   RenderParagraph(Token("paragraph", <<>>, <<"a">>)), <<NL, " ">>}

InitScan ==
  /\ content = <<>>
  /\ rules = OriginalRules
  /\ \E n \in 0..Len(ScanDescriptors) :
       processedContent =
         [html |-> <<>>, codeBlocks |-> SubSeq(ScanDescriptors, 1, n)]
  /\ segments = <<>>
  /\ snapshot = NoSnapshot
  /\ pieces = <<>>
  /\ running = Idle
  /\ NoCodeBlocks
  /\ NoFiles
  /\ NoUi

\* processedContent() has a new value, its HTML longer by one piece:
\* segments is recomputed from it
Scan(piece) ==
  /\ pieces' = Append(pieces, piece)
  /\ processedContent' =
       [processedContent EXCEPT !.html = processedContent.html \o piece]
  /\ segments' = Segments(processedContent')
  /\ UNCHANGED <<content, rules, snapshot, running, highlightVars, fileVars, uiVars>>

NextScan ==
  \E piece \in ScanPieces : Len(pieces) < MaxPieces /\ Scan(piece)

SpecScan == InitScan /\ [][NextScan]_vars

(***************************************************************************)
(* CodeBlock: one highlight request per run of the effect                  *)
(* (src/src/components/CodeBlock.tsx)                                      *)
(***************************************************************************)
SUPPORTED_LANGUAGES ==
  {"javascript", "js", "typescript", "ts", "jsx", "tsx", "html", "css",
   "scss", "json", "markdown", "md", "python", "py", "rust", "go", "java",
   "c", "cpp", "csharp", "cs", "php", "ruby", "rb", "swift", "kotlin",
   "sql", "bash", "sh", "shell", "zsh", "powershell", "yaml", "yml", "toml",
   "xml", "graphql", "dockerfile", "docker", "vue", "svelte", "astro",
   "lua", "perl", "r", "scala", "elixir", "clojure", "haskell", "ocaml",
   "zig", "nim", "diff", "git-commit", "git-rebase", "makefile", "nginx",
   "ini", "properties", "plaintext", "text", "txt"}

\* the language tags given to the components; the empty string stands for
\* an absent language
Languages == {"", "JS", "mermaid", "rust"}

\* lang.toLowerCase() on the tags in use
ToLowerCase(lang) == IF lang = "JS" THEN "js" ELSE lang

aliases ==
  [js |-> "javascript", ts |-> "typescript", py |-> "python", rb |-> "ruby",
   cs |-> "csharp", sh |-> "bash", shell |-> "bash", zsh |-> "bash",
   yml |-> "yaml", docker |-> "dockerfile", text |-> "plaintext",
   txt |-> "plaintext"]

normalizeLanguage(lang) ==
  IF lang = "" THEN "plaintext"
  ELSE LET lower == ToLowerCase(lang) IN
       IF lower \in DOMAIN aliases THEN aliases[lower]
       ELSE IF lower \in SUPPORTED_LANGUAGES THEN lower
       ELSE "plaintext"

themeMap ==
  [editorial |-> [light |-> "github-light", dark |-> "nord"],
   minimal |-> [light |-> "github-light", dark |-> "github-dark-dimmed"],
   cozy |-> [light |-> "kanagawa-lotus", dark |-> "kanagawa-wave"],
   bold |-> [light |-> "one-light", dark |-> "tokyo-night"],
   retro |-> [light |-> "everforest-light", dark |-> "everforest-dark"],
   tokyo |-> [light |-> "github-light-default", dark |-> "tokyo-night"]]

getShikiTheme(aestheticTheme, mode) == themeMap[aestheticTheme][mode]

ColorModes == {"light", "dark"}
\* the aesthetics the user switches between here
Aesthetics == {"editorial", "cozy"}

CodeBlockIds == 1..NumCodeBlocks

\* highlightedHtml() === null
NullHtml == [kind |-> "null"]

\* the markup codeToHtml resolves with for a request
ShikiHtml(request) ==
  [kind |-> "shiki", code |-> request.code, lang |-> request.lang,
   theme |-> request.theme]

\* the arguments of codeToHtml read by one run of the effect
Request(props, mode, currentAesthetic) ==
  [code |-> props.code, lang |-> normalizeLanguage(props.language),
   theme |-> getShikiTheme(currentAesthetic, mode)]

IssueRequestCancelling(pending, request) == <<request>>

\* codeToHtml(...) is called: the request joins the pending ones, none of
\* which is cancelled
IssueRequest(pending, request) == Append(pending, request)

\* the effect of one component: setIsLoading(true) and a new request
RunEffect(b, mode, currentAesthetic) ==
  [isLoading |-> TRUE,
   inFlight |-> IssueRequest(inFlight[b],
                             Request(codeBlockProps[b], mode, currentAesthetic))]

\* .then((html) => ...) of one component
OnResolved(b, html) == [highlightedHtml |-> html, isLoading |-> FALSE]

OnRejectedKeepsHtml(b) ==
  [highlightedHtml |-> highlightedHtml[b], isLoading |-> FALSE]

\* .catch((err) => ...) of one component
OnRejected(b) == [highlightedHtml |-> NullHtml, isLoading |-> FALSE]

\* what the Show of a component displays: the highlighted markup, or the
\* raw code while loading or without markup
Show(loading, html, props) ==
  IF ~loading /\ html # NullHtml
  THEN html
  ELSE [kind |-> "raw", code |-> props.code]

\* what component b displays
Shown(b) == Show(isLoading[b], highlightedHtml[b], codeBlockProps[b])

RemoveAt(seq, k) == SubSeq(seq, 1, k - 1) \o SubSeq(seq, k + 1, Len(seq))

\* the components are created: signals at their initial values, and the
\* effect of each has run once
InitHighlight ==
  /\ content = <<>>
  /\ rules = OriginalRules
  /\ processedContent = [html |-> <<>>, codeBlocks |-> <<>>]
  /\ segments = <<>>
  /\ snapshot = NoSnapshot
  /\ pieces = <<>>
  /\ running = Idle
  /\ codeBlockProps = [b \in CodeBlockIds |-> [code |-> <<"x">>, language |-> ""]]
  /\ resolvedColorMode = "light"
  /\ aesthetic = "editorial"
  /\ highlightedHtml = [b \in CodeBlockIds |-> NullHtml]
  /\ isLoading = [b \in CodeBlockIds |-> TRUE]
  /\ inFlight =
       [b \in CodeBlockIds |->
          <<Request(codeBlockProps[b], resolvedColorMode, aesthetic)>>]
  /\ event = NoEvent
  /\ effectRuns = 0
  /\ NoFiles
  /\ NoUi

\* a tracked signal changes and effects run again
CanIssue == effectRuns < MaxEffectRuns

\* resolvedColorMode() changes: the effect of every component runs again
ColorModeChanges(mode) ==
  /\ mode # resolvedColorMode
  /\ CanIssue
  /\ effectRuns' = effectRuns + 1
  /\ resolvedColorMode' = mode
  /\ isLoading' = [b \in CodeBlockIds |-> RunEffect(b, mode, aesthetic).isLoading]
  /\ inFlight' = [b \in CodeBlockIds |-> RunEffect(b, mode, aesthetic).inFlight]
  /\ event' = [kind |-> "issue", block |-> 0]
  /\ UNCHANGED <<codeBlockProps, highlightedHtml, aesthetic, previewVars, fileVars, uiVars>>

\* aesthetic() changes: the effect of every component runs again
AestheticChanges(newAesthetic) ==
  /\ newAesthetic # aesthetic
  /\ CanIssue
  /\ effectRuns' = effectRuns + 1
  /\ aesthetic' = newAesthetic
  /\ isLoading' =
       [b \in CodeBlockIds |->
          RunEffect(b, resolvedColorMode, newAesthetic).isLoading]
  /\ inFlight' =
       [b \in CodeBlockIds |->
          RunEffect(b, resolvedColorMode, newAesthetic).inFlight]
  /\ event' = [kind |-> "issue", block |-> 0]
  /\ UNCHANGED <<codeBlockProps, highlightedHtml, resolvedColorMode,
                 previewVars, fileVars, uiVars>>

\* props.language of component b changes: its effect runs again
LanguageChanges(b, language) ==
  LET props == [codeBlockProps[b] EXCEPT !.language = language] IN
  /\ language # codeBlockProps[b].language
  /\ CanIssue
  /\ effectRuns' = effectRuns + 1
  /\ codeBlockProps' = [codeBlockProps EXCEPT ![b] = props]
  /\ isLoading' = [isLoading EXCEPT ![b] = TRUE]
  /\ inFlight' =
       [inFlight EXCEPT
          ![b] = IssueRequest(inFlight[b],
                              Request(props, resolvedColorMode, aesthetic))]
  /\ event' = [kind |-> "issue", block |-> b]
  /\ UNCHANGED <<highlightedHtml, resolvedColorMode, aesthetic, previewVars, fileVars, uiVars>>

ResolvesSharedLoading(b, k) ==
  LET applied == OnResolved(b, ShikiHtml(inFlight[b][k])) IN
  /\ highlightedHtml' = [highlightedHtml EXCEPT ![b] = applied.highlightedHtml]
  /\ isLoading' = [o \in CodeBlockIds |-> applied.isLoading]
  /\ inFlight' = [inFlight EXCEPT ![b] = RemoveAt(inFlight[b], k)]
  /\ event' = [kind |-> "resolved", block |-> b]
  /\ UNCHANGED <<codeBlockProps, resolvedColorMode, aesthetic, effectRuns,
                 previewVars, fileVars, uiVars>>

\* the k-th pending request of component b resolves
Resolves(b, k) ==
  LET applied == OnResolved(b, ShikiHtml(inFlight[b][k])) IN
  /\ highlightedHtml' = [highlightedHtml EXCEPT ![b] = applied.highlightedHtml]
  /\ isLoading' = [isLoading EXCEPT ![b] = applied.isLoading]
  /\ inFlight' = [inFlight EXCEPT ![b] = RemoveAt(inFlight[b], k)]
  /\ event' = [kind |-> "resolved", block |-> b]
  /\ UNCHANGED <<codeBlockProps, resolvedColorMode, aesthetic, effectRuns,
                 previewVars, fileVars, uiVars>>

\* the k-th pending request of component b is rejected
Rejects(b, k) ==
  LET applied == OnRejected(b) IN
  /\ highlightedHtml' = [highlightedHtml EXCEPT ![b] = applied.highlightedHtml]
  /\ isLoading' = [isLoading EXCEPT ![b] = applied.isLoading]
  /\ inFlight' = [inFlight EXCEPT ![b] = RemoveAt(inFlight[b], k)]
  /\ event' = [kind |-> "rejected", block |-> b]
  /\ UNCHANGED <<codeBlockProps, resolvedColorMode, aesthetic, effectRuns,
                 previewVars, fileVars, uiVars>>

NextHighlight ==
  \/ \E mode \in ColorModes : ColorModeChanges(mode)
  \/ \E newAesthetic \in Aesthetics : AestheticChanges(newAesthetic)
  \/ \E b \in CodeBlockIds : \E language \in Languages :
       LanguageChanges(b, language)
  \/ \E b \in CodeBlockIds : \E k \in 1..Len(inFlight[b]) : Resolves(b, k)
  \/ \E b \in CodeBlockIds : \E k \in 1..Len(inFlight[b]) : Rejects(b, k)

SpecHighlight == InitHighlight /\ [][NextHighlight]_vars

(***************************************************************************)
(* The passes of the processedContent memo step by step, among the other   *)
(* tasks of the page: promise callbacks of the CodeBlock components and an *)
(* event handler that switches the colour mode.  A task starts only when   *)
(* the call stack is empty; the memo body has no await and md.render is a  *)
(* synchronous call, so a pass that has begun goes on to its last step.    *)
(***************************************************************************)
CallStackIgnored == TRUE

\* a new task is taken from the queue
CallStackEmpty == running.pc = "idle"

LoopBlocks == {BlankBlock, ParaBlock, FenceJsBlock}

InitLoop == InitHighlight

\* props.content changes and the memo starts: guard, locals, overrides
BeginPass(new) ==
  /\ CallStackEmpty
  /\ new # content
  /\ content' = new
  /\ IF ~Truthy(Trim(SourceText(new)))
     THEN /\ processedContent' = [html |-> <<>>, codeBlocks |-> <<>>]
          /\ segments' = Segments(processedContent')
          /\ running' = Idle
          /\ UNCHANGED rules
     ELSE /\ rules' = InstallOverrides(rules)
          /\ running' = [pc |-> "configured", html |-> <<>>,
                         codeBlocks |-> <<>>]
          /\ UNCHANGED <<processedContent, segments>>
  /\ UNCHANGED <<snapshot, pieces, highlightVars, fileVars, uiVars>>

\* const html = md.render(source)
RenderStep ==
  LET done == RenderFrom(Parse(content), 1, rules, <<>>, FreshPass) IN
  /\ running.pc = "configured"
  /\ running' = [pc |-> "rendered", html |-> done.html,
                 codeBlocks |-> done.pass.codeBlocks]
  /\ UNCHANGED <<content, rules, processedContent, segments, snapshot, pieces,
                 highlightVars, fileVars, uiVars>>

\* the five rules are put back and the memo returns; segments follows
RestoreStep ==
  /\ running.pc = "rendered"
  /\ rules' = RestoreRenderers(rules)
  /\ processedContent' =
       [html |-> running.html, codeBlocks |-> running.codeBlocks]
  /\ segments' = Segments(processedContent')
  /\ running' = Idle
  /\ UNCHANGED <<content, snapshot, pieces, highlightVars, fileVars, uiVars>>

NextLoop ==
  \/ \E new \in Edits(content, LoopBlocks, MaxLoopBlocks) : BeginPass(new)
  \/ RenderStep
  \/ RestoreStep
  \/ \E mode \in ColorModes : CallStackEmpty /\ ColorModeChanges(mode)
  \/ \E b \in CodeBlockIds : \E k \in 1..Len(inFlight[b]) :
       CallStackEmpty /\ Resolves(b, k)
  \/ \E b \in CodeBlockIds : \E k \in 1..Len(inFlight[b]) :
       CallStackEmpty /\ Rejects(b, k)

SpecLoop == InitLoop /\ [][NextLoop]_vars

\* md.render(source) throws: the statements after it are skipped and the
\* exception leaves the memo, whose value stays the previous one
RenderThrows ==
  /\ running.pc = "configured"
  /\ running' = Idle
  /\ UNCHANGED <<content, rules, processedContent, segments, snapshot, pieces,
                 highlightVars, fileVars, uiVars>>

NextThrow == NextLoop \/ RenderThrows

\* the passes among the other tasks, with a parser that may throw
SpecThrow == InitLoop /\ [][NextThrow]_vars

(***************************************************************************)
(* The file store over localStorage (src/unnamed/part_000)                 *)
(***************************************************************************)
STORAGE_KEY == "oh-my-md:files-v1"
CURRENT_FILE_KEY == "oh-my-md:current-file-v1"

\* values of Date.now() and of the random suffix of an identifier; two files
\* made in the same millisecond with the same suffix share an identifier
Times == 1..MaxClock
Randoms == {0}

\* the identifier made at time now with random suffix random
generateId(now, random) == <<now, random>>

FileIds == {generateId(now, random) : now \in Times, random \in Randoms}

\* names and contents given by the callers
Names == {"", "notes"}
Contents == {"", "# a"}

SavedFile(id, name, fileContent, createdAt, updatedAt) ==
  [id |-> id, name |-> name, content |-> fileContent, createdAt |-> createdAt,
   updatedAt |-> updatedAt]

\* Partial<Pick<SavedFile, 'name' | 'content'>>
Updates ==
  {[name |-> "notes", content |-> ""], [name |-> "notes"],
   [content |-> "# a"], [k \in {} |-> ""]}

\* JSON.stringify(files): the fields of every file, in order
JsonStringify(fs) ==
  [i \in 1..Len(fs) |->
     <<fs[i].id, fs[i].name, fs[i].content, fs[i].createdAt, fs[i].updatedAt>>]

\* JSON.parse(stored)
JsonParse(stored) ==
  [i \in 1..Len(stored) |->
     SavedFile(stored[i][1], stored[i][2], stored[i][3], stored[i][4],
               stored[i][5])]

\* window.localStorage.setItem(key, value)
setItem(storage, key, value) ==
  [k \in DOMAIN storage \cup {key} |-> IF k = key THEN value ELSE storage[k]]

\* window.localStorage.removeItem(key)
removeItem(storage, key) == [k \in DOMAIN storage \ {key} |-> storage[k]]

loadFromStorage(storage) ==
  IF STORAGE_KEY \in DOMAIN storage THEN JsonParse(storage[STORAGE_KEY])
  ELSE <<>>

saveToStorage(storage, fs) == setItem(storage, STORAGE_KEY, JsonStringify(fs))

\* getItem gives null for a key that is not stored
loadCurrentFileId(storage) ==
  IF CURRENT_FILE_KEY \in DOMAIN storage THEN storage[CURRENT_FILE_KEY]
  ELSE Null

saveCurrentFileIdNeverRemoves(storage, id) ==
  IF id # Null THEN setItem(storage, CURRENT_FILE_KEY, id) ELSE storage

saveCurrentFileId(storage, id) ==
  IF id # Null THEN setItem(storage, CURRENT_FILE_KEY, id)
  ELSE removeItem(storage, CURRENT_FILE_KEY)

\* what earlier sessions may have left in the storage
PriorFile == SavedFile(generateId(1, 0), "notes", "# a", 1, 1)
PriorStorages ==
  {removeItem(saveToStorage(<<>>, <<>>), STORAGE_KEY),
   saveToStorage(<<>>, <<PriorFile>>),
   saveCurrentFileId(saveToStorage(<<>>, <<PriorFile>>), PriorFile.id),
   saveCurrentFileId(saveToStorage(<<>>, <<PriorFile>>), generateId(2, 0))}

\* the module is loaded: signals at their initial values
InitFiles ==
  /\ content = <<>>
  /\ rules = OriginalRules
  /\ processedContent = [html |-> <<>>, codeBlocks |-> <<>>]
  /\ segments = <<>>
  /\ snapshot = NoSnapshot
  /\ pieces = <<>>
  /\ running = Idle
  /\ NoCodeBlocks
  /\ files = <<>>
  /\ currentFileId = Null
  /\ isInitialized = FALSE
  /\ localStorage \in PriorStorages
  /\ lastCall = NoCall
  /\ NoUi

initializeFilesStore ==
  LET loadedFiles == loadFromStorage(localStorage)
      currentId == loadCurrentFileId(localStorage)
  IN
  /\ ~isInitialized
  /\ files' = loadedFiles
  /\ currentFileId' =
       IF currentId # Null
          /\ \E i \in 1..Len(loadedFiles) : loadedFiles[i].id = currentId
       THEN currentId
       ELSE currentFileId
  /\ isInitialized' = TRUE
  /\ lastCall' = [op |-> "initializeFilesStore"]
  /\ UNCHANGED <<localStorage, previewVars, highlightVars, uiVars>>

setCurrentFileId(id) ==
  /\ currentFileId' = id
  /\ localStorage' = saveCurrentFileId(localStorage, id)
  /\ lastCall' = [op |-> "setCurrentFileId"]
  /\ UNCHANGED <<files, isInitialized, previewVars, highlightVars, uiVars>>

createFile(name, fileContent, now, random) ==
  LET file == SavedFile(generateId(now, random),
                        IF name # "" THEN name ELSE "Untitled",
                        fileContent, now, now)
      updated == Append(files, file)
  IN
  /\ Len(files) < MaxFiles
  /\ files' = updated
  /\ localStorage' = saveToStorage(localStorage, updated)
  /\ lastCall' = [op |-> "createFile"]
  /\ UNCHANGED <<currentFileId, isInitialized, previewVars, highlightVars, uiVars>>

\* { ...f, ...updates, updatedAt: Date.now() }
Spread(f, updates, now) ==
  [k \in DOMAIN f |->
     IF k = "updatedAt" THEN now
     ELSE IF k \in DOMAIN updates THEN updates[k]
     ELSE f[k]]

UpdatedFilesTouchingAll(fs, id, updates, now) ==
  [i \in 1..Len(fs) |->
     IF fs[i].id = id THEN Spread(fs[i], updates, now)
     ELSE [fs[i] EXCEPT !.updatedAt = now]]

\* files().map((f) => f.id === id ? {...} : f)
UpdatedFiles(fs, id, updates, now) ==
  [i \in 1..Len(fs) |->
     IF fs[i].id = id THEN Spread(fs[i], updates, now) ELSE fs[i]]

updateFile(id, updates, now) ==
  LET updated == UpdatedFiles(files, id, updates, now) IN
  /\ files' = updated
  /\ localStorage' = saveToStorage(localStorage, updated)
  /\ lastCall' = [op |-> "updateFile"]
  /\ UNCHANGED <<currentFileId, isInitialized, previewVars, highlightVars, uiVars>>

\* files().filter((f) => f.id !== id)
WithoutFile(fs, id) == SelectSeq(fs, LAMBDA f : f.id # id)

deleteFileKeepsCurrent(id) ==
  LET updated == WithoutFile(files, id) IN
  /\ files' = updated
  /\ localStorage' = saveToStorage(localStorage, updated)
  /\ lastCall' = [op |-> "deleteFile", wasCurrent |-> currentFileId = id]
  /\ UNCHANGED <<currentFileId, isInitialized, previewVars, highlightVars, uiVars>>

deleteFile(id) ==
  LET updated == WithoutFile(files, id)
      saved == saveToStorage(localStorage, updated)
  IN
  /\ files' = updated
  /\ IF currentFileId = id
     THEN /\ currentFileId' = Null
          /\ localStorage' = saveCurrentFileId(saved, Null)
     ELSE /\ currentFileId' = currentFileId
          /\ localStorage' = saved
  /\ lastCall' = [op |-> "deleteFile", wasCurrent |-> currentFileId = id]
  /\ UNCHANGED <<isInitialized, previewVars, highlightVars, uiVars>>

saveCurrentDraft(fileContent, now) ==
  LET id == currentFileId
      updated == UpdatedFiles(files, id, [content |-> fileContent], now)
  IN
  /\ lastCall' = [op |-> "saveCurrentDraft"]
  /\ IF id # Null
     THEN /\ files' = updated
          /\ localStorage' = saveToStorage(localStorage, updated)
     ELSE UNCHANGED <<files, localStorage>>
  /\ UNCHANGED <<currentFileId, isInitialized, previewVars, highlightVars, uiVars>>

NextFiles ==
  \/ initializeFilesStore
  \/ \E id \in FileIds \cup {Null} : setCurrentFileId(id)
  \/ \E name \in Names, fileContent \in Contents, now \in Times,
        random \in Randoms : createFile(name, fileContent, now, random)
  \/ \E id \in FileIds, updates \in Updates, now \in Times :
       updateFile(id, updates, now)
  \/ \E id \in FileIds : deleteFile(id)
  \/ \E fileContent \in Contents, now \in Times :
       saveCurrentDraft(fileContent, now)

SpecFiles == InitFiles /\ [][NextFiles]_vars

(***************************************************************************)
(* App: the editor text, the debounced autosave and the two effects that   *)
(* tie them to the file store (src/src/components/CommandPalette.tsx).     *)
(* A handler runs to its end; every signal write inside it runs the        *)
(* effects that read the signal before the next statement.                 *)
(***************************************************************************)
\* the signals and the storage the handlers of App read and write
AppState ==
  [files |-> files, currentFileId |-> currentFileId,
   localStorage |-> localStorage, markdown |-> markdown,
   lastSavedValue |-> lastSavedValue, pendingSave |-> pendingSave,
   timer |-> timer]

\* files().find((f) => f.id === id): the position of the first match, or 0
FindFile(fs, id) ==
  IF \E i \in 1..Len(fs) : fs[i].id = id
  THEN Min({i \in 1..Len(fs) : fs[i].id = id})
  ELSE 0

\* the effect that loads the current file into the editor
FileEffect(st) ==
  LET at == FindFile(st.files, st.currentFileId) IN
  IF st.currentFileId # Null /\ at # 0
  THEN [st EXCEPT !.markdown = st.files[at].content,
                  !.lastSavedValue = st.files[at].content]
  ELSE st

SaveEffectNeverArms(st) == [st EXCEPT !.pendingSave = FALSE, !.timer = NoTimer]

SaveEffectKeepsTimer(st) ==
  IF st.markdown = st.lastSavedValue
  THEN [st EXCEPT !.pendingSave = FALSE]
  ELSE IF st.timer.armed THEN [st EXCEPT !.pendingSave = TRUE]
  ELSE [st EXCEPT !.pendingSave = TRUE,
                  !.timer = [armed |-> TRUE, fileId |-> st.currentFileId,
                             value |-> st.markdown]]

\* the autosave effect: the timer of its previous run is cleared, then a
\* timer is armed for the text and the file read now, unless the text is
\* the saved one
SaveEffect(st) ==
  IF st.markdown = st.lastSavedValue
  THEN [st EXCEPT !.pendingSave = FALSE, !.timer = NoTimer]
  ELSE [st EXCEPT !.pendingSave = TRUE,
                  !.timer = [armed |-> TRUE, fileId |-> st.currentFileId,
                             value |-> st.markdown]]

\* the autosave effect runs again when a signal it read has changed
SaveEffectIfStale(before, after) ==
  IF \/ after.markdown # before.markdown
     \/ after.lastSavedValue # before.lastSavedValue
     \/ after.currentFileId # before.currentFileId
  THEN SaveEffect(after)
  ELSE after

\* setFiles(updated): a new array, so the file effect runs when it reads
\* files(), that is when a file is current
SetFiles(st, fs) ==
  LET written == [st EXCEPT !.files = fs] IN
  SaveEffectIfStale(written, FileEffect(written))

\* setCurrentFileIdInternal(id)
SetCurrentFileIdInternal(st, id) ==
  IF id = st.currentFileId THEN st
  ELSE SaveEffect(FileEffect([st EXCEPT !.currentFileId = id]))

SetMarkdown(st, value) ==
  IF value = st.markdown THEN st
  ELSE SaveEffect([st EXCEPT !.markdown = value])

SetLastSavedValue(st, value) ==
  IF value = st.lastSavedValue THEN st
  ELSE SaveEffect([st EXCEPT !.lastSavedValue = value])

\* the store functions as the handlers of App call them
StoreSetCurrentFileId(st, id) ==
  LET set == SetCurrentFileIdInternal(st, id) IN
  [set EXCEPT !.localStorage = saveCurrentFileId(set.localStorage, id)]

StoreCreateFile(st, file) ==
  LET updated == Append(st.files, file)
      set == SetFiles(st, updated)
  IN [set EXCEPT !.localStorage = saveToStorage(set.localStorage, updated)]

StoreUpdateFile(st, id, updates, now) ==
  LET updated == UpdatedFiles(st.files, id, updates, now)
      set == SetFiles(st, updated)
  IN [set EXCEPT !.localStorage = saveToStorage(set.localStorage, updated)]

StoreDeleteFileKeepsCurrent(st, id) ==
  LET updated == WithoutFile(st.files, id)
      set == SetFiles(st, updated)
  IN [set EXCEPT !.localStorage = saveToStorage(set.localStorage, updated)]

StoreDeleteFile(st, id) ==
  LET updated == WithoutFile(st.files, id)
      set == SetFiles(st, updated)
      saved == [set EXCEPT
                  !.localStorage = saveToStorage(set.localStorage, updated)]
  IN IF saved.currentFileId = id THEN StoreSetCurrentFileId(saved, Null)
     ELSE saved

\* the handler leaves the signals and the storage as in st
Becomes(st) ==
  /\ files' = st.files
  /\ currentFileId' = st.currentFileId
  /\ localStorage' = st.localStorage
  /\ markdown' = st.markdown
  /\ lastSavedValue' = st.lastSavedValue
  /\ pendingSave' = st.pendingSave
  /\ timer' = st.timer

\* handleSelectFile(file)
HandleSelectFile(st, file) ==
  SetLastSavedValue(SetMarkdown(st, file.content), file.content)

InitApp == InitFiles

\* onMount, then the first run of the two effects
Mount ==
  LET loadedFiles == loadFromStorage(localStorage)
      currentId == loadCurrentFileId(localStorage)
      adopted == IF currentId # Null /\ FindFile(loadedFiles, currentId) # 0
                 THEN currentId ELSE currentFileId
      loaded == [AppState EXCEPT !.files = loadedFiles,
                                 !.currentFileId = adopted]
      at == FindFile(loaded.files, loaded.currentFileId)
      shown == IF loaded.currentFileId # Null /\ at # 0
               THEN [loaded EXCEPT !.markdown = loaded.files[at].content,
                                   !.lastSavedValue = loaded.files[at].content]
               ELSE loaded
  IN
  /\ ~isInitialized
  /\ isInitialized' = TRUE
  /\ Becomes(SaveEffect(FileEffect(shown)))
  /\ lastCall' = [op |-> "mount"]
  /\ UNCHANGED <<isImporting, importing, paletteVars, themeVars, previewVars,
                 highlightVars>>

\* the textarea fires onInput
Type(value) ==
  /\ isInitialized
  /\ Becomes(SetMarkdown(AppState, value))
  /\ lastCall' = [op |-> "type"]
  /\ UNCHANGED <<isInitialized, isImporting, importing, paletteVars,
                 themeVars, previewVars, highlightVars>>

\* the callback of window.setTimeout runs, 400 ms after it was armed
TimerFires(now) ==
  LET fired == [AppState EXCEPT !.timer = NoTimer]
      updated == IF timer.fileId # Null
                 THEN StoreUpdateFile(fired, timer.fileId,
                                      [content |-> timer.value], now)
                 ELSE fired
      saved == SetLastSavedValue(updated, timer.value)
  IN
  /\ timer.armed
  /\ Becomes([saved EXCEPT !.pendingSave = FALSE])
  /\ lastCall' = [op |-> "timer", fileId |-> timer.fileId]
  /\ UNCHANGED <<isInitialized, isImporting, importing, paletteVars,
                 themeVars, previewVars, highlightVars>>

\* identifiers generateId can give next: the random suffix of a new
\* identifier is taken not to repeat that of a file made in the same
\* millisecond
FreshIds(fs) == FileIds \ {fs[i].id : i \in 1..Len(fs)}

\* handleSelect of the palette on the item of the i-th file
SelectFile(i) ==
  LET file == files[i]
      current == StoreSetCurrentFileId(AppState, file.id)
  IN
  /\ isInitialized
  /\ Becomes(HandleSelectFile(current, file))
  /\ lastCall' = [op |-> "select", pending |-> timer.armed]
  /\ UNCHANGED <<isInitialized, isImporting, importing, paletteVars,
                 themeVars, previewVars, highlightVars>>

\* handleCreateFileSubmit(name)
CreateFileSubmit(name, now, random) ==
  LET file == SavedFile(generateId(now, random),
                        IF name # "" THEN name ELSE "Untitled", "", now, now)
      created == StoreCreateFile(AppState, file)
      current == StoreSetCurrentFileId(created, file.id)
  IN
  /\ isInitialized
  /\ Len(files) < MaxFiles
  /\ file.id \in FreshIds(files)
  /\ Becomes(SetLastSavedValue(SetMarkdown(current, ""), ""))
  /\ lastCall' = [op |-> "create"]
  /\ UNCHANGED <<isInitialized, isImporting, importing, paletteVars,
                 themeVars, previewVars, highlightVars>>

\* confirmDeleteFile of the palette for the i-th file
ConfirmDeleteFile(i) ==
  /\ isInitialized
  /\ Becomes(StoreDeleteFile(AppState, files[i].id))
  /\ lastCall' = [op |-> "delete", wasCurrent |-> currentFileId = files[i].id,
                   pending |-> timer.armed]
  /\ UNCHANGED <<isInitialized, isImporting, importing, paletteVars,
                 themeVars, previewVars, highlightVars>>

\* kinds of dropped files: a .docx, a .pdf, anything else
DroppedKinds == {"docx", "pdf", "other"}

\* the text a conversion gives when it finds some
ImportedText == "# a"

IsBusyNever(flag) == FALSE

\* if (isImporting()) return
IsBusy(flag) == flag

\* handleDrop with a file payload, and handleImportFile up to its first await
Drop(kind) ==
  /\ isInitialized
  /\ IF IsBusy(isImporting)
     THEN UNCHANGED <<isImporting, importing>>
     ELSE IF kind = "other"
     THEN /\ isImporting' = FALSE
          /\ UNCHANGED importing
     ELSE /\ isImporting' = TRUE
          /\ importing' = Append(importing, kind)
  /\ lastCall' = [op |-> "drop", ignored |-> IsBusy(isImporting)]
  /\ UNCHANGED <<files, currentFileId, localStorage, isInitialized, markdown,
                 lastSavedValue, pendingSave, timer, paletteVars, themeVars,
                 previewVars, highlightVars>>

\* the conversion of the k-th running import gives text: the rest of the
\* try block, then finally
ImportSucceeds(k, text, now, random) ==
  LET file == SavedFile(generateId(now, random), "notes", text, now, now)
      created == StoreCreateFile(AppState, file)
      current == StoreSetCurrentFileId(created, file.id)
  IN
  /\ Len(files) < MaxFiles
  /\ file.id \in FreshIds(files)
  /\ Becomes(SetLastSavedValue(SetMarkdown(current, text), text))
  /\ importing' = RemoveAt(importing, k)
  /\ isImporting' = FALSE
  /\ lastCall' = [op |-> "imported"]
  /\ UNCHANGED <<isInitialized, paletteVars, themeVars, previewVars,
                 highlightVars>>

\* the k-th running import ends without a file: no text found, or the
\* conversion throws; then finally
ImportEndsEmpty(k) ==
  /\ importing' = RemoveAt(importing, k)
  /\ isImporting' = FALSE
  /\ lastCall' = [op |-> "import ended"]
  /\ UNCHANGED <<files, currentFileId, localStorage, isInitialized, markdown,
                 lastSavedValue, pendingSave, timer, paletteVars, themeVars,
                 previewVars, highlightVars>>

NextApp ==
  \/ Mount
  \/ \E value \in Contents : Type(value)
  \/ \E now \in Times : TimerFires(now)
  \/ \E i \in 1..Len(files) : SelectFile(i)
  \/ \E name \in Names, now \in Times, random \in Randoms :
       CreateFileSubmit(name, now, random)
  \/ \E i \in 1..Len(files) : ConfirmDeleteFile(i)
  \/ \E kind \in DroppedKinds : Drop(kind)
  \/ \E k \in 1..Len(importing), now \in Times, random \in Randoms :
       ImportSucceeds(k, ImportedText, now, random)
  \/ \E k \in 1..Len(importing) : ImportEndsEmpty(k)

SpecApp == InitApp /\ [][NextApp]_vars

(***************************************************************************)
(* The command palette: its list of commands and the selected index        *)
(* (src/src/components/CommandPalette.tsx, lines 38 to 178)                *)
(***************************************************************************)
\* what the user types in the search box; the trimmed lower-case query is
\* the same text
Searches == {"", "dark", "notes", "zz"}

\* 'new file'.includes(query) || 'create'.includes(query)
MatchesNewFile(query) == query = ""

\* f.name.toLowerCase().includes(query), for the names and queries in use
NameIncludes(name, query) ==
  \/ query = ""
  \/ query = "notes" /\ name = "notes"

\* label, description, or one of 'theme', 'style', 'aesthetic' includes the
\* query: none of them holds dark, notes or zz
MatchesAesthetic(query) == query = ""

\* label, description, or one of 'mode', 'dark', 'light' includes the query
MatchesColorMode(query) == query \in {"", "dark"}

aestheticThemes == <<"editorial", "minimal", "cozy", "bold", "retro", "tokyo">>

colorModes == <<"light", "dark", "system">>

\* [...matchingFiles].sort((a, b) => b.updatedAt - a.updatedAt): the
\* position of the i-th file among the sorted ones
SortedPosition(fs, i) ==
  1 + Cardinality({j \in 1..Len(fs) :
                     \/ fs[j].updatedAt > fs[i].updatedAt
                     \/ fs[j].updatedAt = fs[i].updatedAt /\ j < i})

SortedFiles(fs) ==
  [k \in 1..Len(fs) |->
     fs[CHOOSE i \in 1..Len(fs) : SortedPosition(fs, i) = k]]

\* the commands memo
Commands(query, fs) ==
  LET matchingFiles == SelectSeq(fs, LAMBDA f : NameIncludes(f.name, query))
      sortedFiles == SortedFiles(matchingFiles)
  IN (IF MatchesNewFile(query) THEN <<[type |-> "action"]>> ELSE <<>>)
     \o [k \in 1..Len(sortedFiles) |->
           [type |-> "file", file |-> sortedFiles[k]]]
     \o (IF MatchesAesthetic(query)
         THEN [k \in 1..Len(aestheticThemes) |->
                 [type |-> "aesthetic", theme |-> aestheticThemes[k]]]
         ELSE <<>>)
     \o (IF MatchesColorMode(query)
         THEN [k \in 1..Len(colorModes) |->
                 [type |-> "color-mode", mode |-> colorModes[k]]]
         ELSE <<>>)

commands == Commands(search, files)

\* the effect that keeps the selected index valid
EnsureValidIndex(index, items) ==
  LET max == Len(items) - 1 IN
  IF index > max THEN Max({0, max}) ELSE index

\* items.at(index)
At(items, index) ==
  LET k == IF index >= 0 THEN index + 1 ELSE Len(items) + index + 1 IN
  IF k \in 1..Len(items) THEN <<items[k]>> ELSE <<>>

\* the palette opens: search and selection are reset
OpenPalette ==
  /\ isInitialized
  /\ search' = ""
  /\ selectedIndex' = EnsureValidIndex(0, Commands("", files))
  /\ lastCall' = [op |-> "open"]
  /\ UNCHANGED <<files, currentFileId, isInitialized, localStorage, appVars,
                 themeVars, previewVars, highlightVars>>

\* onInput of the search box, then the two effects
Search(value) ==
  /\ isInitialized
  /\ value # search
  /\ search' = value
  /\ selectedIndex' = EnsureValidIndex(0, Commands(value, files))
  /\ lastCall' = [op |-> "search"]
  /\ UNCHANGED <<files, currentFileId, isInitialized, localStorage, appVars,
                 themeVars, previewVars, highlightVars>>

\* handleKeyDown, ArrowDown
ArrowDown ==
  /\ isInitialized
  /\ selectedIndex' =
       EnsureValidIndex(Min({selectedIndex + 1, Len(commands) - 1}), commands)
  /\ lastCall' = [op |-> "ArrowDown"]
  /\ UNCHANGED <<files, currentFileId, isInitialized, localStorage, appVars,
                 search, themeVars, previewVars, highlightVars>>

\* handleKeyDown, ArrowUp
ArrowUp ==
  /\ isInitialized
  /\ selectedIndex' = EnsureValidIndex(Max({selectedIndex - 1, 0}), commands)
  /\ lastCall' = [op |-> "ArrowUp"]
  /\ UNCHANGED <<files, currentFileId, isInitialized, localStorage, appVars,
                 search, themeVars, previewVars, highlightVars>>

\* onMouseEnter of the item at index
Hover(index) ==
  /\ isInitialized
  /\ selectedIndex' = EnsureValidIndex(index, commands)
  /\ lastCall' = [op |-> "hover"]
  /\ UNCHANGED <<files, currentFileId, isInitialized, localStorage, appVars,
                 search, themeVars, previewVars, highlightVars>>

\* confirmDeleteFile for the i-th file: the list of commands changes
PaletteDeleteFile(i) ==
  LET deleted == StoreDeleteFile(AppState, files[i].id) IN
  /\ isInitialized
  /\ Becomes(deleted)
  /\ selectedIndex' =
       EnsureValidIndex(selectedIndex, Commands(search, deleted.files))
  /\ lastCall' = [op |-> "delete", wasCurrent |-> currentFileId = files[i].id,
                   pending |-> timer.armed]
  /\ UNCHANGED <<isInitialized, isImporting, importing, search, themeVars,
                 previewVars, highlightVars>>

\* an import ends with a new file while the palette is open
PaletteFileImported(now, random) ==
  LET file == SavedFile(generateId(now, random), "notes", ImportedText, now,
                        now)
      created == StoreCreateFile(AppState, file)
      current == StoreSetCurrentFileId(created, file.id)
      shown == SetLastSavedValue(SetMarkdown(current, ImportedText),
                                 ImportedText)
  IN
  /\ isInitialized
  /\ Len(files) < MaxFiles
  /\ file.id \in FreshIds(files)
  /\ Becomes(shown)
  /\ selectedIndex' =
       EnsureValidIndex(selectedIndex, Commands(search, shown.files))
  /\ lastCall' = [op |-> "imported"]
  /\ UNCHANGED <<isInitialized, isImporting, importing, search, themeVars,
                 previewVars, highlightVars>>

InitPalette == InitFiles

NextPalette ==
  \/ Mount
  \/ OpenPalette
  \/ \E value \in Searches : Search(value)
  \/ ArrowDown
  \/ ArrowUp
  \/ \E index \in 0..(Len(commands) - 1) : Hover(index)
  \/ \E i \in 1..Len(files) : PaletteDeleteFile(i)
  \/ \E now \in Times, random \in Randoms : PaletteFileImported(now, random)

SpecPalette == InitPalette /\ [][NextPalette]_vars

(***************************************************************************)
(* The theme store: colour mode, system preference and the root classes    *)
(***************************************************************************)
COLOR_MODE_KEY == "oh-my-md:color-mode-v1"
AESTHETIC_KEY == "oh-my-md:aesthetic-v1"

\* type ColorMode
ColorMode == {"light", "dark", "system"}

\* what prefers-color-scheme can report
SystemPreferences == {"light", "dark"}

InSeq(x, seq) == \E i \in 1..Len(seq) : seq[i] = x

\* getItem gives null for a key that is not stored, and null is falsy
loadColorMode(storage) ==
  IF COLOR_MODE_KEY \in DOMAIN storage
     /\ InSeq(storage[COLOR_MODE_KEY], colorModes)
  THEN storage[COLOR_MODE_KEY]
  ELSE "system"

saveColorMode(storage, mode) == setItem(storage, COLOR_MODE_KEY, mode)

\* window.matchMedia('(prefers-color-scheme: dark)').matches ? 'dark' : 'light'
getSystemPreference == systemPreference

loadAesthetic(storage) ==
  IF AESTHETIC_KEY \in DOMAIN storage
     /\ InSeq(storage[AESTHETIC_KEY], aestheticThemes)
  THEN storage[AESTHETIC_KEY]
  ELSE "editorial"

saveAesthetic(storage, theme) == setItem(storage, AESTHETIC_KEY, theme)

ResolveIgnoringSystem(mode, preference) ==
  IF mode = "system" THEN "light" ELSE mode

\* mode === 'system' ? getSystemPreference() : mode
Resolve(mode, preference) == IF mode = "system" THEN preference ELSE mode

\* updateResolvedColorMode(mode): the signal, and the class dark of the root
\* added or removed
updateResolvedColorMode(mode) ==
  LET resolved == Resolve(mode, getSystemPreference) IN
  /\ resolvedColorMode' = resolved
  /\ rootDark' = (resolved = "dark")

\* applyAesthetic(theme): the six theme classes removed, theme-<theme> added
applyAesthetic(theme) == rootTheme' = theme

\* what earlier sessions may have left under the two keys
PriorThemeStorages ==
  {<<>>,
   saveColorMode(<<>>, "dark"),
   saveColorMode(<<>>, "light"),
   saveAesthetic(saveColorMode(<<>>, "system"), "cozy"),
   saveAesthetic(saveColorMode(<<>>, "blue"), "blue")}

InitTheme ==
  /\ content = <<>>
  /\ rules = OriginalRules
  /\ processedContent = [html |-> <<>>, codeBlocks |-> <<>>]
  /\ segments = <<>>
  /\ snapshot = NoSnapshot
  /\ pieces = <<>>
  /\ running = Idle
  /\ NoCodeBlocks
  /\ files = <<>>
  /\ currentFileId = Null
  /\ isInitialized = FALSE
  /\ localStorage \in PriorThemeStorages
  /\ lastCall = NoCall
  /\ NoUi

initializeThemeStore ==
  LET storedMode == loadColorMode(localStorage)
      storedAesthetic == loadAesthetic(localStorage)
  IN
  /\ ~themeInitialized
  /\ colorMode' = storedMode
  /\ updateResolvedColorMode(storedMode)
  /\ aesthetic' = storedAesthetic
  /\ applyAesthetic(storedAesthetic)
  /\ themeInitialized' = TRUE
  /\ lastCall' = [op |-> "initializeThemeStore"]
  /\ UNCHANGED <<systemPreference, localStorage, files, currentFileId,
                 isInitialized, appVars, paletteVars, previewVars,
                 codeBlockProps, highlightedHtml, isLoading, inFlight, event,
                 effectRuns>>

setColorMode(newMode) ==
  /\ colorMode' = newMode
  /\ localStorage' = saveColorMode(localStorage, newMode)
  /\ updateResolvedColorMode(newMode)
  /\ lastCall' = [op |-> "setColorMode"]
  /\ UNCHANGED <<systemPreference, rootTheme, themeInitialized, aesthetic,
                 files, currentFileId, isInitialized, appVars, paletteVars,
                 previewVars, codeBlockProps, highlightedHtml, isLoading,
                 inFlight, event, effectRuns>>

setAesthetic(newAesthetic) ==
  /\ aesthetic' = newAesthetic
  /\ localStorage' = saveAesthetic(localStorage, newAesthetic)
  /\ applyAesthetic(newAesthetic)
  /\ lastCall' = [op |-> "setAesthetic"]
  /\ UNCHANGED <<colorMode, systemPreference, rootDark, themeInitialized,
                 resolvedColorMode, files, currentFileId, isInitialized,
                 appVars, paletteVars, previewVars, codeBlockProps,
                 highlightedHtml, isLoading, inFlight, event, effectRuns>>

\* the system colour scheme changes; the listener exists once the store is
\* initialized: if (colorMode() === 'system') updateResolvedColorMode('system')
SystemPreferenceChanges(preference) ==
  /\ preference # systemPreference
  /\ systemPreference' = preference
  /\ IF themeInitialized /\ colorMode = "system"
     THEN LET resolved == Resolve("system", preference) IN
          /\ resolvedColorMode' = resolved
          /\ rootDark' = (resolved = "dark")
     ELSE UNCHANGED <<resolvedColorMode, rootDark>>
  /\ lastCall' = [op |-> "change"]
  /\ UNCHANGED <<colorMode, rootTheme, themeInitialized, aesthetic,
                 localStorage, files, currentFileId, isInitialized, appVars,
                 paletteVars, previewVars, codeBlockProps, highlightedHtml,
                 isLoading, inFlight, event, effectRuns>>

NextTheme ==
  \/ initializeThemeStore
  \/ \E newMode \in ColorMode : setColorMode(newMode)
  \/ \E newAesthetic \in Aesthetics : setAesthetic(newAesthetic)
  \/ \E preference \in SystemPreferences : SystemPreferenceChanges(preference)

SpecTheme == InitTheme /\ [][NextTheme]_vars

(***************************************************************************)
(* Properties                                                              *)
(***************************************************************************)
\* source.trim() is empty
BlankSource == ~Truthy(Trim(SourceText(content)))

IsCodeToken(token) == token.type \in {"fence", "code_block"}

\* the fenced and indented code blocks of the source, in document order
CodeTokens == SelectSeq(Parse(content), IsCodeToken)

CodeSegmentAt(k) == segments[k].type = "code"
CodeSegmentIndexes == {k \in 1..Len(segments) : CodeSegmentAt(k)}
HtmlSegmentIndexes == {k \in 1..Len(segments) : ~CodeSegmentAt(k)}

EndsWithNewline(s) == Len(s) > 0 /\ s[Len(s)] = NL

\* C1: for a non-blank source with N fenced or indented code blocks, N
\* descriptors are recorded, the segment sequence has exactly N code
\* segments, and every recorded descriptor is the data of exactly one
\* code segment.
C1_EveryDescriptorInOneSegment ==
  ~BlankSource =>
    LET n == Len(CodeTokens)
        codeBlocks == processedContent.codeBlocks
    IN /\ Len(codeBlocks) = n
       /\ Cardinality(CodeSegmentIndexes) = n
       /\ \A j \in 1..n :
            Cardinality({k \in CodeSegmentIndexes :
                           segments[k].data = codeBlocks[j]}) = 1

\* two code blocks next to a paragraph that spells out a placeholder
C1_Witness ==
  /\ Len(CodeTokens) >= 2
  /\ Cardinality(CodeSegmentIndexes) >= 2
  /\ \E i \in 1..Len(content) : content[i] = MarkerTextBlock

\* the 0-based index at which the placeholder of the j-th recorded
\* descriptor stands in the rendered HTML
PlaceholderIndex(j) ==
  LET html == processedContent.html
      marker == Placeholder(processedContent.codeBlocks[j].id)
  IN Min({i \in 0..(Len(html) - 1) : StartsWithAt(html, i + 1, marker)})

\* the rendered HTML after the placeholder of descriptor j (from the start
\* for j = 0) and before the placeholder of descriptor j + 1 (to the end
\* after the last one)
StretchAfter(j) ==
  LET html == processedContent.html
      codeBlocks == processedContent.codeBlocks
      from == IF j = 0 THEN 0
              ELSE PlaceholderIndex(j) + Len(Placeholder(codeBlocks[j].id))
      to == IF j = Len(codeBlocks) THEN Len(html)
            ELSE PlaceholderIndex(j + 1)
  IN Slice(html, from, to)

CodeSegmentsBefore(k) == Cardinality({c \in CodeSegmentIndexes : c < k})

\* C2: the code segments are the recorded descriptors in the order of
\* their blocks in the source (the j-th code segment is the j-th block,
\* so identifiers increase), and each HTML segment is the rendered HTML
\* between the placeholders of the code segments around it.
C2_SegmentOrderIsSourceOrder ==
  ~BlankSource =>
    LET codeBlocks == processedContent.codeBlocks IN
    /\ Len(codeBlocks) = Len(CodeTokens)
    /\ \A k \in CodeSegmentIndexes :
         LET j == CodeSegmentsBefore(k) + 1 IN
         /\ j <= Len(codeBlocks)
         /\ segments[k].data = codeBlocks[j]
         /\ segments[k].data.id = BlockId(j - 1)
         /\ segments[k].data.code \in
              {CodeTokens[j].content,
               SubSeq(CodeTokens[j].content, 1, Len(CodeTokens[j].content) - 1)}
    /\ \A k \in HtmlSegmentIndexes :
         /\ CodeSegmentsBefore(k) <= Len(codeBlocks)
         /\ segments[k].content = StretchAfter(CodeSegmentsBefore(k))

\* a code block, a paragraph and a different code block, in this order
C2_Witness ==
  /\ Len(segments) = 3
  /\ CodeSegmentAt(1) /\ ~CodeSegmentAt(2) /\ CodeSegmentAt(3)
  /\ segments[1].data.language # segments[3].data.language

\* C3: after any invocation of the segmenter the fence, code_block, image,
\* link_open and link_close rules of the shared renderer are the values
\* captured at module load.
C3_RulesAreOriginal ==
  /\ rules.fence = originalFence
  /\ rules.code_block = originalCodeBlock
  /\ rules.image = originalImage
  /\ rules.link_open = originalLinkOpen
  /\ rules.link_close = originalLinkClose

\* a pass that intercepted code blocks has completed
C3_Witness ==
  /\ ~BlankSource
  /\ Len(processedContent.codeBlocks) >= 1
  /\ Cardinality(CodeSegmentIndexes) >= 1
  /\ rules = OriginalRules

\* C4: an empty or whitespace-only source yields no segments and no
\* descriptors.
C4_BlankSourceYieldsNothing ==
  BlankSource =>
    /\ segments = <<>>
    /\ processedContent.codeBlocks = <<>>
    /\ processedContent.html = <<>>

\* a whitespace-only source that is not the empty string
C4_Witness ==
  /\ BlankSource
  /\ Len(SourceText(content)) > 0
  /\ segments = <<>>

\* C5 as stated: a non-blank source without code blocks yields exactly one
\* HTML segment and no code segment.
C5_Original ==
  (~BlankSource /\ Len(CodeTokens) = 0) =>
    /\ Len(segments) = 1
    /\ segments[1].type = "html"

\* C5 amended: a non-blank source without code blocks yields no code
\* segment, and one HTML segment holding the whole rendered HTML when that
\* HTML is not blank after trimming, and no segment at all when it is.
C5_OneHtmlSegmentUnlessBlankHtml ==
  (~BlankSource /\ Len(CodeTokens) = 0) =>
    /\ CodeSegmentIndexes = {}
    /\ IF Truthy(Trim(processedContent.html))
       THEN segments = <<HtmlSegment(processedContent.html)>>
       ELSE segments = <<>>

\* a source of a reference definition and a paragraph
C5_Witness ==
  /\ ~BlankSource
  /\ Len(CodeTokens) = 0
  /\ \E i \in 1..Len(content) : content[i] = RefDefBlock
  /\ Len(segments) = 1
  /\ segments[1].type = "html"

\* C6: the identifiers of one pass are unique and are code-block-0,
\* code-block-1, ... in document order, whatever passes ran before.
C6_IdentifiersSequentialFromZero ==
  LET codeBlocks == processedContent.codeBlocks IN
  /\ \A j \in 1..Len(codeBlocks) : codeBlocks[j].id = BlockId(j - 1)
  /\ \A i, j \in 1..Len(codeBlocks) :
       codeBlocks[i].id = codeBlocks[j].id => i = j
  /\ ~BlankSource => Len(codeBlocks) = Len(CodeTokens)

\* a pass with three code blocks, reached through passes with fewer
C6_Witness ==
  /\ Len(processedContent.codeBlocks) = 3
  /\ processedContent.codeBlocks[3].id = BlockId(2)

C8_OneTrailingNewlineStripped ==
  ~BlankSource =>
    LET codeBlocks == processedContent.codeBlocks IN
    /\ Len(codeBlocks) = Len(CodeTokens)
    /\ \A j \in 1..Len(codeBlocks) :
         IF EndsWithNewline(CodeTokens[j].content)
         THEN codeBlocks[j].code \o <<NL>> = CodeTokens[j].content
         ELSE codeBlocks[j].code = CodeTokens[j].content

\* a block whose content ends with two newlines keeps one, and a block
\* without a final newline is kept whole
C8_Witness ==
  LET codeBlocks == processedContent.codeBlocks IN
  /\ Len(codeBlocks) = Len(CodeTokens)
  /\ \E j \in 1..Len(codeBlocks) :
       /\ CodeTokens[j].content = <<"x", NL, NL>>
       /\ codeBlocks[j].code = <<"x", NL>>
  /\ \E j \in 1..Len(codeBlocks) :
       /\ CodeTokens[j].content = <<"x">>
       /\ codeBlocks[j].code = <<"x">>

\* C9: the language of a fenced block is its info string, character for
\* character, and plaintext when the info string is empty.
C9_FenceLanguageVerbatim ==
  ~BlankSource =>
    LET codeBlocks == processedContent.codeBlocks IN
    /\ Len(codeBlocks) = Len(CodeTokens)
    /\ \A j \in 1..Len(codeBlocks) :
         CodeTokens[j].type = "fence" =>
           IF CodeTokens[j].info = <<>>
           THEN codeBlocks[j].language = Plaintext
           ELSE codeBlocks[j].language = CodeTokens[j].info

\* fences with the info strings js, (space)JS and none
C9_Witness ==
  LET codeBlocks == processedContent.codeBlocks IN
  /\ \E j \in 1..Len(codeBlocks) : codeBlocks[j].language = <<"j", "s">>
  /\ \E j \in 1..Len(codeBlocks) : codeBlocks[j].language = <<" ", "J", "S">>
  /\ \E j \in 1..Len(codeBlocks) :
       /\ j <= Len(CodeTokens)
       /\ CodeTokens[j].type = "fence"
       /\ CodeTokens[j].info = <<>>
       /\ codeBlocks[j].language = Plaintext

\* C10: the language of every indented code block is plaintext.
C10_IndentedLanguagePlaintext ==
  ~BlankSource =>
    LET codeBlocks == processedContent.codeBlocks IN
    /\ Len(codeBlocks) = Len(CodeTokens)
    /\ \A j \in 1..Len(codeBlocks) :
         CodeTokens[j].type = "code_block" =>
           codeBlocks[j].language = Plaintext

\* an indented block of two chunks around an empty line
C10_Witness ==
  LET codeBlocks == processedContent.codeBlocks IN
  /\ Len(codeBlocks) = 1
  /\ Len(CodeTokens) = 1
  /\ CodeTokens[1].type = "code_block"
  /\ CodeTokens[1].content = <<"x", NL, NL, "x", NL>>
  /\ codeBlocks[1].code = <<"x", NL, NL, "x">>
  /\ codeBlocks[1].language = Plaintext

\* the 0-based indexes at which the placeholder pattern matches the HTML
MatchStarts ==
  {i \in 0..(Len(processedContent.html) - 1) :
     processedContent.html[i + 1] = "<"
       /\ MatchLenAt(processedContent.html, i) > 0}

RECURSIVE Ascending(_)
Ascending(S) ==
  IF S = {} THEN <<>> ELSE <<Min(S)>> \o Ascending(S \ {Min(S)})

\* the matches from left to right
Matches == Ascending(MatchStarts)

MatchEndAt(i) == i + MatchLenAt(processedContent.html, i)

\* the descriptor recorded for the identifier of the match at i, if any
DescriptorAt(i) ==
  CodeBlockMapGet(processedContent.codeBlocks,
                  MatchId(processedContent.html, i,
                          MatchLenAt(processedContent.html, i)))

ResolvedStarts == {i \in MatchStarts : DescriptorAt(i) # Undefined}

\* the HTML after the j-th match (from the start for j = 0) and before the
\* next match (to the end after the last one)
ScanStretch(j) ==
  Slice(processedContent.html,
        IF j = 0 THEN 0 ELSE MatchEndAt(Matches[j]),
        IF j = Len(Matches) THEN Len(processedContent.html)
        ELSE Matches[j + 1])

NonBlank(s) == Truthy(Trim(s))

ContainsPlaceholder(s) ==
  \E i \in 0..(Len(s) - 1) : s[i + 1] = "<" /\ MatchLenAt(s, i) > 0

HtmlContents ==
  LET IsHtml(segment) == segment.type = "html"
      htmlSegments == SelectSeq(segments, IsHtml)
  IN [k \in 1..Len(htmlSegments) |-> htmlSegments[k].content]

CodeData ==
  LET IsCode(segment) == segment.type = "code"
      codeSegments == SelectSeq(segments, IsCode)
  IN [k \in 1..Len(codeSegments) |-> codeSegments[k].data]

\* C11: a placeholder whose identifier has no descriptor yields no code
\* segment and no HTML segment holding its text; the scan goes on after
\* it, so the code segments are the descriptors of the resolved
\* placeholders in order and every non-blank stretch, also one after an
\* unresolved placeholder, is an HTML segment.
C11_UnresolvedPlaceholderSkipped ==
  LET resolved == Ascending(ResolvedStarts) IN
  /\ Len(CodeData) = Len(resolved)
  /\ \A k \in 1..Len(resolved) : CodeData[k] = DescriptorAt(resolved[k])
  /\ \A k \in 1..Len(HtmlContents) : ~ContainsPlaceholder(HtmlContents[k])
  /\ \A j \in 0..Len(Matches) :
       NonBlank(ScanStretch(j)) =>
         \E k \in 1..Len(HtmlContents) : HtmlContents[k] = ScanStretch(j)

\* an unresolved placeholder, then markup, then a resolved placeholder
C11_Witness ==
  /\ Len(Matches) = 2
  /\ DescriptorAt(Matches[1]) = Undefined
  /\ DescriptorAt(Matches[2]) # Undefined
  /\ NonBlank(ScanStretch(1))
  /\ Len(segments) = 2
  /\ segments[1] = HtmlSegment(ScanStretch(1))
  /\ segments[2] = CodeSegment(DescriptorAt(Matches[2]))

\* C12: no HTML segment is empty or whitespace-only.
C12_NoBlankHtmlSegment ==
  \A k \in 1..Len(segments) :
    segments[k].type = "html" =>
      /\ segments[k].content # <<>>
      /\ \E c \in 1..Len(segments[k].content) :
           segments[k].content[c] \notin WhitespaceChars

\* whitespace between two placeholders, after them and before them, and
\* two code segments only
C12_Witness ==
  /\ Len(Matches) = 2
  /\ \A j \in 0..2 : ScanStretch(j) # <<>> /\ ~NonBlank(ScanStretch(j))
  /\ Len(segments) = 2
  /\ CodeSegmentAt(1) /\ CodeSegmentAt(2)

\* the non-blank stretches, in order
RECURSIVE NonBlankStretchesFrom(_)
NonBlankStretchesFrom(j) ==
  IF j > Len(Matches) THEN <<>>
  ELSE (IF NonBlank(ScanStretch(j)) THEN <<ScanStretch(j)>> ELSE <<>>)
         \o NonBlankStretchesFrom(j + 1)

\* the HTML without its whitespace-only stretches
RECURSIVE HtmlWithoutBlankFrom(_)
HtmlWithoutBlankFrom(j) ==
  IF j > Len(Matches) THEN <<>>
  ELSE (IF NonBlank(ScanStretch(j)) THEN ScanStretch(j) ELSE <<>>)
         \o (IF j = Len(Matches) THEN <<>>
             ELSE Slice(processedContent.html, Matches[j + 1],
                        MatchEndAt(Matches[j + 1])))
         \o HtmlWithoutBlankFrom(j + 1)

\* the segments written out, a code segment as its placeholder
RECURSIVE WrittenOutFrom(_)
WrittenOutFrom(k) ==
  IF k > Len(segments) THEN <<>>
  ELSE (IF segments[k].type = "code" THEN Placeholder(segments[k].data.id)
        ELSE segments[k].content)
         \o WrittenOutFrom(k + 1)

\* C13: the HTML segments are exactly the non-blank stretches before,
\* between and after the placeholders, each once and in order; when every
\* placeholder resolves, the segments written out with each code segment
\* as its placeholder are the rendered HTML without its whitespace-only
\* stretches.
C13_NoContentLost ==
  /\ HtmlContents = NonBlankStretchesFrom(0)
  /\ ResolvedStarts = MatchStarts =>
       WrittenOutFrom(1) = HtmlWithoutBlankFrom(0)

\* markup, a placeholder, whitespace, a placeholder, markup
C13_Witness ==
  /\ ResolvedStarts = MatchStarts
  /\ Len(Matches) = 2
  /\ NonBlank(ScanStretch(0))
  /\ ScanStretch(1) # <<>> /\ ~NonBlank(ScanStretch(1))
  /\ NonBlank(ScanStretch(2))
  /\ Len(segments) = 4
  /\ WrittenOutFrom(1) # processedContent.html

\* C14: the placeholders in the rendered HTML of a pass are those of its
\* intercepted code blocks: paragraph text is escaped and never matches,
\* so there are as many matches as descriptors and each matched
\* identifier has its descriptor.
C14_PlaceholdersOnlyFromCodeBlocks ==
  /\ Len(Matches) = Len(processedContent.codeBlocks)
  /\ \A j \in 1..Len(Matches) :
       DescriptorAt(Matches[j]) = processedContent.codeBlocks[j]
  /\ ~BlankSource => Len(Matches) = Len(CodeTokens)

\* a paragraph spelling out the placeholder of code-block-0 next to the
\* code block that has this identifier
C14_Witness ==
  /\ \E i \in 1..Len(content) : content[i] = MarkerTextBlock
  /\ Len(processedContent.codeBlocks) = 1
  /\ Len(Matches) = 1
  /\ Len(segments) = 2

\* C16: when a highlight request of a component is rejected, that component
\* is no longer loading, its highlighted HTML is cleared and it shows its raw
\* code, and highlightedHtml, isLoading and the display of every other
\* component are as before.
C16_FailureShowsRawCode ==
  [][event'.kind = "rejected" =>
       LET b == event'.block IN
       /\ ~isLoading'[b]
       /\ highlightedHtml'[b] = NullHtml
       /\ Show(isLoading'[b], highlightedHtml'[b], codeBlockProps'[b]) =
            [kind |-> "raw", code |-> codeBlockProps[b].code]
       /\ \A o \in CodeBlockIds \ {b} :
            /\ highlightedHtml'[o] = highlightedHtml[o]
            /\ isLoading'[o] = isLoading[o]
            /\ Show(isLoading'[o], highlightedHtml'[o], codeBlockProps'[o]) =
                 Shown(o)]_vars

\* a request fails in a component that was showing highlighted markup
\* before its theme changed, next to a component that shows its markup
C16_Witness ==
  /\ event.kind = "rejected"
  /\ highlightedHtml[event.block] = NullHtml
  /\ ~isLoading[event.block]
  /\ \E o \in CodeBlockIds \ {event.block} :
       ~isLoading[o] /\ highlightedHtml[o] # NullHtml

\* C17: a request of a component that settles, by success or by failure,
\* changes highlightedHtml and isLoading of that component only, leaves that
\* component not loading, and touches no pending request of another one;
\* any pending request of any component may be the one that settles.
C17_CompletionsIndependent ==
  [][event'.kind \in {"resolved", "rejected"} =>
       LET b == event'.block IN
       /\ ~isLoading'[b]
       /\ \A o \in CodeBlockIds \ {b} :
            /\ highlightedHtml'[o] = highlightedHtml[o]
            /\ isLoading'[o] = isLoading[o]
            /\ inFlight'[o] = inFlight[o]
       /\ UNCHANGED <<codeBlockProps, resolvedColorMode, aesthetic>>]_vars

\* the second component has its markup while the first, whose request was
\* issued earlier in the same run of effects, is still loading
C17_Witness ==
  /\ event.kind = "resolved"
  /\ event.block = 2
  /\ ~isLoading[2]
  /\ highlightedHtml[2] # NullHtml
  /\ isLoading[1]
  /\ inFlight[1] # <<>>

\* C18: a run of the effect keeps every pending request of the component,
\* in order, and adds one; a request that resolves sets highlightedHtml to
\* its own result, whichever requests are still pending.
C18_RequestsNeverCancelled ==
  [][/\ event'.kind = "issue" =>
          \A b \in CodeBlockIds :
            /\ Len(inFlight'[b]) >= Len(inFlight[b])
            /\ SubSeq(inFlight'[b], 1, Len(inFlight[b])) = inFlight[b]
     /\ event'.kind = "resolved" =>
          LET b == event'.block IN
          \E k \in 1..Len(inFlight[b]) :
            /\ inFlight'[b] = RemoveAt(inFlight[b], k)
            /\ highlightedHtml'[b] = ShikiHtml(inFlight[b][k])]_vars

\* nothing is pending and a component displays the result of a request
\* issued before its latest one
C18_Witness ==
  \E b \in CodeBlockIds :
    /\ inFlight[b] = <<>>
    /\ ~isLoading[b]
    /\ highlightedHtml[b] # NullHtml
    /\ highlightedHtml[b] #
         ShikiHtml(Request(codeBlockProps[b], resolvedColorMode, aesthetic))
    /\ Shown(b) = highlightedHtml[b]

\* C19: a call updateFile(id, updates) keeps the length and order of the
\* list; in a file with that id it keeps id and createdAt, sets the fields
\* named in updates to the given values, keeps the other one and sets
\* updatedAt to the time of the call; it leaves every other file and
\* currentFileId as they were; when no file has that id the list is as before.
C19_UpdateFileFrame ==
  [][\A id \in FileIds, updates \in Updates, now \in Times :
       updateFile(id, updates, now) =>
         /\ Len(files') = Len(files)
         /\ \A i \in 1..Len(files) :
              IF files[i].id = id
              THEN /\ files'[i].id = files[i].id
                   /\ files'[i].createdAt = files[i].createdAt
                   /\ files'[i].name =
                        IF "name" \in DOMAIN updates THEN updates.name
                        ELSE files[i].name
                   /\ files'[i].content =
                        IF "content" \in DOMAIN updates THEN updates.content
                        ELSE files[i].content
                   /\ files'[i].updatedAt = now
              ELSE files'[i] = files[i]
         /\ currentFileId' = currentFileId
         /\ (\A i \in 1..Len(files) : files[i].id # id) => files' = files]_vars

\* an update has renamed one of two files and moved its updatedAt, while
\* the other file, which is the current one, is as it was created
C19_Witness ==
  /\ lastCall.op = "updateFile"
  /\ Len(files) = 2
  /\ \E i, j \in 1..2 :
       /\ files[i].id # files[j].id
       /\ files[i].name = "notes"
       /\ files[i].updatedAt # files[i].createdAt
       /\ files[j].name = "Untitled"
       /\ files[j].updatedAt = files[j].createdAt
       /\ currentFileId = files[j].id

\* the positions of the files whose id is not the given one
KeptIndexes(fs, id) == {i \in 1..Len(fs) : fs[i].id # id}

\* C20: a call deleteFile(id) leaves exactly the files with another id, each
\* unchanged and in the same order; when id was the current file,
\* currentFileId becomes null and the current-file key leaves the storage,
\* otherwise currentFileId is as before.
C20_DeleteFileFrame ==
  [][\A id \in FileIds :
       deleteFile(id) =>
         LET kept == KeptIndexes(files, id) IN
         /\ Len(files') = Cardinality(kept)
         /\ \A i \in kept :
              files'[Cardinality({j \in kept : j <= i})] = files[i]
         /\ IF currentFileId = id
            THEN /\ currentFileId' = Null
                 /\ CURRENT_FILE_KEY \notin DOMAIN localStorage'
            ELSE currentFileId' = currentFileId]_vars

\* the current file has just been deleted from a list of two
C20_Witness ==
  /\ lastCall.op = "deleteFile"
  /\ lastCall.wasCurrent
  /\ Len(files) = 1
  /\ currentFileId = Null
  /\ CURRENT_FILE_KEY \notin DOMAIN localStorage
  /\ loadFromStorage(localStorage) = files

C21_CurrentFileIdValid ==
  currentFileId = Null \/ FindFile(files, currentFileId) # 0

\* the application has started over a storage whose current-file key names
\* no stored file, and has no current file
C21_Witness ==
  /\ lastCall.op = "mount"
  /\ isInitialized
  /\ files # <<>>
  /\ CURRENT_FILE_KEY \in DOMAIN localStorage
  /\ FindFile(files, localStorage[CURRENT_FILE_KEY]) = 0
  /\ currentFileId = Null

\* the file the store calls current: getCurrentFile()
CurrentFile == files[FindFile(files, currentFileId)]

\* C22: when a file is current, pendingSave is false and no debounce timer
\* is armed, the stored content of the current file is the editor text.
C22_SavedWhenNothingPending ==
  (isInitialized /\ currentFileId # Null /\ ~pendingSave /\ ~timer.armed) =>
    /\ FindFile(files, currentFileId) # 0
    /\ CurrentFile.content = markdown
    /\ JsonParse(localStorage[STORAGE_KEY]) = files

\* the timer has fired and stored typed text in the current file, one of
\* two files
C22_Witness ==
  /\ lastCall.op = "timer"
  /\ lastCall.fileId # Null
  /\ currentFileId = lastCall.fileId
  /\ ~pendingSave
  /\ ~timer.armed
  /\ Len(files) = 2
  /\ CurrentFile.content = markdown
  /\ CurrentFile.updatedAt # CurrentFile.createdAt

\* C23: an armed timer holds the editor text and the file current now; a
\* step that changes the current file leaves no timer armed for a file and
\* writes to no stored file that was there before; and the firing timer
\* writes its text to the current file only.
C23_AutosaveOnlyToItsFile ==
  [][/\ timer.armed => (timer.fileId = currentFileId /\ timer.value = markdown)
     /\ currentFileId' # currentFileId =>
          /\ timer'.armed => timer'.fileId = Null
          /\ \A i \in 1..Len(files), j \in 1..Len(files') :
               files'[j].id = files[i].id => files'[j] = files[i]
     /\ lastCall'.op = "timer" =>
          /\ Len(files') = Len(files)
          /\ \A i \in 1..Len(files) :
               IF files[i].id = currentFileId
               THEN files'[i].content = markdown
               ELSE files'[i] = files[i]]_vars

\* another file was selected while typed text waited for its timer: the
\* timer is gone and no file holds that text
C23_Witness ==
  /\ lastCall.op = "select"
  /\ lastCall.pending
  /\ ~timer.armed
  /\ ~pendingSave
  /\ Len(files) = 2
  /\ \A i \in 1..2 : files[i].content = ""
  /\ \A i \in 1..2 : files[i].updatedAt = files[i].createdAt

\* at most one import is running, and isImporting says whether one is
OneImport == Len(importing) <= 1 /\ (isImporting <=> importing # <<>>)

\* C26: at most one import runs at a time and isImporting is true exactly
\* while it runs, so it is false again however the import ended; a drop
\* while isImporting is true starts no import and creates no file.
C26_OneImportAtATime ==
  [][/\ OneImport
     /\ OneImport'
     /\ (lastCall'.op = "drop" /\ isImporting) =>
          UNCHANGED <<files, importing, isImporting, currentFileId, markdown>>
     /\ lastCall'.op \in {"imported", "import ended"} => ~isImporting']_vars

\* a file was dropped while an import was running, and was ignored
C26_Witness ==
  /\ lastCall.op = "drop"
  /\ lastCall.ignored
  /\ isImporting
  /\ Len(importing) = 1

\* C24: the selected index of the palette is a position of the list of
\* commands, or 0 when the list is empty.
C24_SelectedIndexValid ==
  /\ 0 <= selectedIndex
  /\ selectedIndex <= Max({0, Len(commands) - 1})

\* C25: when control is outside the segmenter, also after a pass whose
\* render threw, the five rules of the shared renderer are the originals.
C25_RestoredAfterThrow == running.pc = "idle" => rules = OriginalRules

\* the file array persisted in local storage equals the in-memory list
FilesPersisted ==
  /\ STORAGE_KEY \in DOMAIN localStorage
  /\ JsonParse(localStorage[STORAGE_KEY]) = files

\* the persisted current-file key equals currentFileId, absent when null
CurrentFileIdPersisted ==
  IF currentFileId = Null THEN CURRENT_FILE_KEY \notin DOMAIN localStorage
  ELSE /\ CURRENT_FILE_KEY \in DOMAIN localStorage
       /\ localStorage[CURRENT_FILE_KEY] = currentFileId

C28_ResolvedColorMode ==
  themeInitialized =>
    /\ colorMode \in {"light", "dark"} => resolvedColorMode = colorMode
    /\ colorMode = "system" => resolvedColorMode = systemPreference
    /\ rootDark <=> resolvedColorMode = "dark"

\* the system turned dark while the initialized store was in mode system
C28_Witness ==
  /\ themeInitialized
  /\ colorMode = "system"
  /\ systemPreference = "dark"
  /\ lastCall.op = "change"

\* the identifiers of the recorded descriptors
RecordedIds ==
  {processedContent.codeBlocks[k].id : k \in 1..Len(processedContent.codeBlocks)}

\* match[1] of the match at i
MarkerIdAt(i) ==
  MatchId(processedContent.html, i, MatchLenAt(processedContent.html, i))

EveryMarkerResolves == \A i \in MatchStarts : MarkerIdAt(i) \in RecordedIds

AdjacentHtml(k) == ~CodeSegmentAt(k) /\ ~CodeSegmentAt(k + 1)

\* C29: when every marker resolves to a descriptor, no two adjacent
\* segments are both HTML, so with N markers, one per code block, there are
\* at most 2N+1 segments and at most N+1 of them are HTML.
C29_NoAdjacentHtml ==
  EveryMarkerResolves =>
    LET n == Cardinality(MatchStarts) IN
    /\ \A k \in 1..(Len(segments) - 1) : ~AdjacentHtml(k)
    /\ Len(segments) <= 2 * n + 1
    /\ Cardinality(HtmlSegmentIndexes) <= n + 1

\* two resolved markers with HTML before, between and after them: the
\* bound 2N+1 is met
C29_Witness ==
  /\ EveryMarkerResolves
  /\ Cardinality(MatchStarts) = 2
  /\ Len(segments) = 5
  /\ Cardinality(HtmlSegmentIndexes) = 3

====
